---- MODULE Spec2Model ----
(***************************************************************************)
(* ScreenShare: the signaling relay (src/unnamed/part_009, the socket.io   *)
(* server) and the peer-session coordinator                                *)
(* (src/src/network/webrtc-connection.js, class WebRTCConnection).         *)
(*                                                                         *)
(* Spec      : the relay.  One action per socket.io event handler; a       *)
(*             handler is synchronous JavaScript, so it is one atomic step.*)
(*             What a handler emits is a function of the state it runs in  *)
(*             and of its arguments: the ...Out operators give it, as a    *)
(*             bag of messages (one copy per delivery).                    *)
(* CoordSpec : one coordinator.  Its handlers are async functions; every   *)
(*             await is a point where other handlers run, so a handler is  *)
(*             a task that advances from await to await.                   *)
(***************************************************************************)
EXTENDS Integers, Sequences, FiniteSets, Bags, TLC

(***************************************************************************)
(* Bounds of the model.                                                    *)
(***************************************************************************)
NumSockets == 3      \* transport connections the relay ever accepts
NumNames == 1        \* client-chosen stream names other than socket ids
MaxUuid == 1         \* uuidv4() calls the relay makes
MaxCreates == 2      \* create-stream requests the relay handles
NumPayloads == 1     \* distinct opaque signal payloads
NumPeers == 1        \* remote peers that signal the coordinator
MaxEvents == 3       \* relay and transport events the coordinator gets
MaxCandidates == 2   \* ICE candidates one peer sends
MaxLifeEvents == 5   \* events in the whole life of a coordinator
MaxRecoveryEvents == 9  \* events of a host that keeps losing its viewer
MaxPageEvents == 4      \* signals and transport events of the viewer page
MaxLeaveEvents == 5     \* events of a host whose viewer leaves
MaxRelinkEvents == 3    \* transport losses of a host's relay connection
MaxOutages == 12        \* transport losses of a coordinator that keeps reconnecting
TickMs == 6000       \* ms that pass in one step of time

(***************************************************************************)
(* Identifiers.  A socket.io room name, a stream id and a socket id are    *)
(* all JavaScript strings of one name space: a client may send any string  *)
(* as a stream id, also one that is another connection's socket id.        *)
(***************************************************************************)
SocketIds == {<<"sock", i>> : i \in 1..NumSockets}
Names == {<<"name", i>> : i \in 1..NumNames}
Uuids == {<<"uuid", i>> : i \in 1..MaxUuid}
Empty == <<"empty", 0>>          \* a falsy stream id: undefined, null, ""
Payloads == 1..NumPayloads
PeerIds == {<<"peer", i>> : i \in 1..NumPeers}

VARIABLES
  \* ---- relay (part_009) ----
  connections,   \* the Map streamId -> [hostSocketId, viewers, createdAt]
  connected,     \* io.sockets.sockets: the sockets currently connected
  accepted,      \* number of transport connections accepted so far
  rooms,         \* socket -> the socket.io rooms it is in
  nextUuid,      \* number of uuidv4() results handed out so far
  clock,         \* logical time of the relay, read by new Date()
  created,       \* history: every id ever stored as a key of connections
  hostLost,      \* history: ids whose session was live when its host's
                 \* transport disconnected, not joined or created since
  lostJoined     \* history: ids of hostLost that have been joined once since

relayVars == <<connections, connected, accepted, rooms, nextUuid, clock,
               created, hostLost, lostJoined>>

VARIABLES
  \* ---- coordinator (webrtc-connection.js) ----
  co,            \* the fields of the WebRTCConnection object
  pcs,           \* the RTCPeerConnection objects created so far, in order
  init,          \* where the initialize() call stands, and its options
  certWait,      \* calls of _createPeerConnection awaiting the certificate
  sent,          \* what was emitted through the signaling socket, in order
  timers,        \* the timers that are set and have not fired
  emitted,       \* the events given to the application (_emitEvent)
  socketUp,      \* the signaling socket is connected
  ncand,         \* history: peer -> number of candidates received from it
  heard,         \* history: the <<peer, type>> of the signals handled
  offersApplied, \* history: peer -> remote offers applied with success
  events,        \* history: number of relay and transport events so far
  down,          \* history: shutdown() has been called
  streak         \* history: peer -> transitions to failed since connected

coordVars == <<co, pcs, init, certWait, sent, timers, emitted, socketUp,
               ncand, heard, offersApplied, events, down, streak>>

VARIABLES
  \* ---- viewer page (part_003) ----
  page           \* the script state of the viewer page, see PageLoaded

vars == <<relayVars, coordVars, page>>

(***************************************************************************)
(* Messages the relay emits.  One record shape for all of them: room is    *)
(* the room io.to() addressed (Empty for socket.emit), the other fields    *)
(* are the payload the receiver sees.                                      *)
(***************************************************************************)
Msg(to, room, msg, id, who, text, sig) ==
  [to |-> to, room |-> room, msg |-> msg, id |-> id, who |-> who,
   text |-> text, sig |-> sig]

\* The sockets in a room: socket.io puts every socket in the room named by
\* its own id, socket.join(r) adds rooms, and a disconnect leaves them all.
RoomMembersIn(live, rms, room) == {s \in live : room \in rms[s]}

\* io.to(room).emit(...): one copy to every socket in the room.
EmitToRoomIn(live, rms, room, msg, id, who, text, sig) ==
  SetToBag({Msg(s, room, msg, id, who, text, sig) :
              s \in RoomMembersIn(live, rms, room)})

EmitToRoom(room, msg, id, who, text, sig) ==
  EmitToRoomIn(connected, rooms, room, msg, id, who, text, sig)

\* socket.emit(...): to the requesting socket alone.
EmitToSocket(s, msg, id, who, text, sig) ==
  SetToBag({Msg(s, Empty, msg, id, who, text, sig)})

RECURSIVE BagSum(_)
BagSum(bags) ==
  IF bags = {} THEN EmptyBag
  ELSE LET b == CHOOSE x \in bags : TRUE IN b (+) BagSum(bags \ {b})

\* Copies of a message kind a socket gets out of a bag of emissions.
Copies(out, to, msg, room) ==
  LET hits == {m \in BagToSet(out) : m.to = to /\ m.msg = msg /\ m.room = room}
  IN BagCardinality([m \in hits |-> out[m]])

\* What a client can put in a stream-id argument: any name, any socket id,
\* any uuid the relay has handed out, or nothing.
RequestIds == Names \cup SocketIds \cup {<<"uuid", i>> : i \in 1..nextUuid}
                \cup {Empty}

Session(host, viewers, at) ==
  [hostSocketId |-> host, viewers |-> viewers, createdAt |-> at]

Remove(f, keys) == [x \in DOMAIN f \ keys |-> f[x]]

Put(f, key, val) == [x \in DOMAIN f \cup {key} |-> IF x = key THEN val ELSE f[x]]

RelayInit ==
  /\ connections = <<>>
  /\ connected = {}
  /\ accepted = 0
  /\ rooms = [s \in SocketIds |-> {}]
  /\ nextUuid = 0
  /\ clock = 0
  /\ created = {}
  /\ hostLost = {}
  /\ lostJoined = {}

\* new WebRTCConnection(): empty maps, no signaling socket, not a host.
Constructor ==
  /\ co = [isHost |-> FALSE, signaling |-> FALSE, connectionId |-> Empty,
           connectionState |-> "disconnected", reconnectAttempts |-> 0,
           statsInterval |-> FALSE,
           peerConnections |-> <<>>, dataChannels |-> <<>>,
           pendingCandidates |-> <<>>, iceGatheringComplete |-> <<>>,
           iceGatheringTimeouts |-> <<>>, connectionErrors |-> <<>>,
           lastConnectionAttempt |-> <<>>]
  /\ pcs = <<>>
  /\ init = [at |-> "constructed", existing |-> Empty]
  /\ certWait = <<>>
  /\ sent = <<>>
  /\ timers = {}
  /\ emitted = {}
  /\ socketUp = FALSE
  /\ ncand = [p \in PeerIds |-> 0]
  /\ heard = {}
  /\ offersApplied = [p \in PeerIds |-> 0]
  /\ events = 0
  /\ down = FALSE
  /\ streak = [p \in PeerIds |-> 0]

\* The viewer page once its script has run and connectToStream has sent
\* join-stream: no peer connection yet, nothing sent to the host.
\* answeredInGrace is history: an answer had been sent when the 3000 ms
\* timer fired; events counts the signals and transport events so far.
PageLoaded ==
  page = [at |-> "joining", peerConnection |-> FALSE, isConnected |-> FALSE,
          pc |-> [signalingState |-> "closed", localDescription |-> FALSE,
                  remoteDescription |-> FALSE, connectionState |-> "closed",
                  applied |-> <<>>, chain |-> <<>>],
          graceTimer |-> FALSE, sent |-> <<>>, answeredInGrace |-> FALSE,
          events |-> 0,
          socket |-> <<"sock", 1>>, sockets |-> {<<"sock", 1>>},
          listening |-> {}, reconnectAttempts |-> 0, retryTimers |-> 0,
          button |-> FALSE, input |-> TRUE, endedOn |-> {}]

\* The page after its load handler, with a connection id in the input
\* field: no call of connectToStream has been made.
PageIdle ==
  page = [at |-> "idle", peerConnection |-> FALSE, isConnected |-> FALSE,
          pc |-> [signalingState |-> "closed", localDescription |-> FALSE,
                  remoteDescription |-> FALSE, connectionState |-> "closed",
                  applied |-> <<>>, chain |-> <<>>],
          graceTimer |-> FALSE, sent |-> <<>>, answeredInGrace |-> FALSE,
          events |-> 0,
          socket |-> Empty, sockets |-> {},
          listening |-> {}, reconnectAttempts |-> 0, retryTimers |-> 0,
          button |-> FALSE, input |-> TRUE, endedOn |-> {}]

Init == RelayInit /\ Constructor /\ PageLoaded

\* io.on('connection'): a new socket, in the room of its own id.  The relay
\* assigns the socket ids, each one once: the k-th connection gets the k-th.
Connect(s) ==
  /\ s = <<"sock", accepted + 1>>
  /\ accepted' = accepted + 1
  /\ connected' = connected \cup {s}
  /\ rooms' = [rooms EXCEPT ![s] = {s}]
  /\ UNCHANGED <<connections, nextUuid, clock, created, hostLost, lostJoined>>
  /\ UNCHANGED <<coordVars, page>>

(***************************************************************************)
(* create-stream                                                           *)
(***************************************************************************)
\* Lines 39-42: a falsy id is replaced by a fresh uuid.
RequestedOrNew(req) == IF req = Empty THEN <<"uuid", nextUuid + 1>> ELSE req

\* The relay with the test of line 49 never finding another host's session.
CollidesWithNobody(s, id) == FALSE

\* Lines 45-58: an id owned by another host is replaced by a fresh uuid; the
\* same host's own id is kept.
Collides(s, id) ==
  id \in DOMAIN connections /\ connections[id].hostSocketId # s

\* The relay without the collision check: the requested id is used as it is.
EffectiveIdNoCollisionCheck(s, req) == RequestedOrNew(req)

EffectiveId(s, req) ==
  IF Collides(s, RequestedOrNew(req)) THEN <<"uuid", nextUuid + 1>>
  ELSE RequestedOrNew(req)

UuidsUsed(s, req) ==
  IF req = Empty \/ Collides(s, req) THEN 1 ELSE 0

\* Lines 61-65: the entry stored under the effective id.
StoredSession(s, id) == Session(s, {}, clock + 1)

CreateRegistry(s, req) ==
  Put(connections, EffectiveId(s, req), StoredSession(s, EffectiveId(s, req)))

\* Line 71.
CreateOut(s, req) ==
  EmitToSocket(s, "stream-created", EffectiveId(s, req), Empty, "", 0)

CreateStream(s, req) ==
  /\ s \in connected
  /\ clock < MaxCreates
  /\ nextUuid + UuidsUsed(s, req) <= MaxUuid
  /\ connections' = CreateRegistry(s, req)
  /\ rooms' = [rooms EXCEPT ![s] = @ \cup {EffectiveId(s, req)}]
  /\ nextUuid' = nextUuid + UuidsUsed(s, req)
  /\ clock' = clock + 1
  /\ created' = created \cup {EffectiveId(s, req)}
  /\ hostLost' = hostLost \ {EffectiveId(s, req)}
  /\ lostJoined' = lostJoined \ {EffectiveId(s, req)}
  /\ UNCHANGED <<connected, accepted>>
  /\ UNCHANGED <<coordVars, page>>

(***************************************************************************)
(* join-stream                                                             *)
(***************************************************************************)
\* join-stream with the liveness test of line 104 inverted.
JoinOutcomeInHostTestInverted(reg, live, id) ==
  IF id = Empty THEN "invalid"
  ELSE IF id \notin DOMAIN reg THEN "notfound"
  ELSE IF reg[id].hostSocketId \in live THEN "unreachable"
  ELSE "ok"

JoinOutcomeIn(reg, live, id) ==
  IF id = Empty THEN "invalid"                                \* line 89
  ELSE IF id \notin DOMAIN reg THEN "notfound"                \* line 97
  ELSE IF reg[id].hostSocketId \notin live THEN "unreachable" \* line 104
  ELSE "ok"

JoinOutcome(id) == JoinOutcomeIn(connections, connected, id)

\* The two error texts of lines 99 and 106 exchanged.
ErrorTextExchanged(outcome) ==
  CASE outcome = "invalid" -> "Invalid stream ID"
    [] outcome = "notfound" -> "Stream host is disconnected"
    [] outcome = "unreachable" -> "Stream not found"

ErrorText(outcome) ==
  CASE outcome = "invalid" -> "Invalid stream ID"
    [] outcome = "notfound" -> "Stream not found"
    [] outcome = "unreachable" -> "Stream host is disconnected"

JoinRegistry(s, id) ==
  CASE JoinOutcome(id) = "ok" ->
         [connections EXCEPT ![id].viewers = @ \cup {s}]       \* line 113
    [] JoinOutcome(id) = "unreachable" ->
         Remove(connections, {id})                              \* line 108
    [] OTHER -> connections

JoinRooms(s, id) ==
  IF JoinOutcome(id) = "ok" THEN [rooms EXCEPT ![s] = @ \cup {id}]
  ELSE rooms

JoinOut(s, id) ==
  IF JoinOutcome(id) = "ok"
  THEN EmitToSocket(s, "joined-stream", id,
                    connections[id].hostSocketId, "", 0)      \* line 119
       (+) EmitToRoomIn(connected, JoinRooms(s, id),
                        connections[id].hostSocketId,
                        "viewer-joined", id, s, "", 0)         \* line 125
  ELSE EmitToSocket(s, "error", Empty, Empty,
                    ErrorText(JoinOutcome(id)), 0)

JoinStream(s, id) ==
  /\ s \in connected
  /\ connections' = JoinRegistry(s, id)
  /\ rooms' = JoinRooms(s, id)
  /\ lostJoined' = (lostJoined \cup (hostLost \cap {id}))
  /\ hostLost' = hostLost \ {id}
  /\ UNCHANGED <<connected, accepted, nextUuid, clock, created>>
  /\ UNCHANGED <<coordVars, page>>

(***************************************************************************)
(* signal: forwarded to the room named by `to`                             *)
(***************************************************************************)
SignalOut(s, to, sig) == EmitToRoom(to, "signal", Empty, s, "", sig)

\* The 'signal' handler that takes the sender from the message when the
\* message names one.
ForwardSignalTrustingSender(s, m) ==
  EmitToRoom(m.to, "signal", Empty, IF m.from # Empty THEN m.from ELSE s,
             "", m.signal)

\* Lines 134-139 for the message object m a client emitted: the handler
\* takes m.to and m.signal out of it, whatever else m holds.
ForwardSignal(s, m) == SignalOut(s, m.to, m.signal)

\* The objects a client can emit as a signal: a target, a payload, and a
\* from field of its own making (Empty: none).
SignalMessages ==
  [to : RequestIds, signal : Payloads, from : SocketIds \cup {Empty}]

Signal(s, to, sig) ==
  /\ s \in connected
  /\ UNCHANGED vars

(***************************************************************************)
(* end-stream                                                              *)
(***************************************************************************)
\* The test of line 145 without its comparison of the host.
MayEndAnyRequester(s, id) == id \in DOMAIN connections

MayEnd(s, id) ==
  id \in DOMAIN connections /\ connections[id].hostSocketId = s

\* end-stream without the connections.delete of line 150.
EndRegistryNoDelete(s, id) == connections

EndRegistry(s, id) ==
  IF MayEnd(s, id) THEN Remove(connections, {id}) ELSE connections

EndOut(s, id) ==
  IF MayEnd(s, id)
  THEN EmitToRoom(id, "stream-ended", Empty, Empty, "", 0)
  ELSE EmptyBag

EndStream(s, id) ==
  /\ s \in connected
  /\ connections' = EndRegistry(s, id)
  /\ UNCHANGED <<connected, accepted, rooms, nextUuid, clock, created,
                 hostLost, lostJoined>>
  /\ UNCHANGED <<coordVars, page>>

(***************************************************************************)
(* disconnect.  socket.io leaves all rooms and removes the socket from     *)
(* io.sockets.sockets, then runs the 'disconnect' handler, all in one      *)
(* synchronous call.                                                       *)
(***************************************************************************)
HostedByIn(reg, s) == {id \in DOMAIN reg : reg[id].hostSocketId = s}

HostedBy(s) == HostedByIn(connections, s)

ViewedByIn(reg, s) ==
  {id \in DOMAIN reg : reg[id].hostSocketId # s /\ s \in reg[id].viewers}

ViewedBy(s) == ViewedByIn(connections, s)

\* The disconnect scan without its host branch (lines 162-169): only the
\* viewer is removed.
AfterDisconnectKeepHosted(s) ==
  [id \in DOMAIN connections |->
     IF id \in ViewedBy(s)
     THEN [connections[id] EXCEPT !.viewers = @ \ {s}]
     ELSE connections[id]]

\* The disconnect scan without its viewer branch (lines 170-181): only the
\* hosted sessions are removed.
AfterDisconnectKeepViewer(s) ==
  [id \in DOMAIN connections \ HostedBy(s) |-> connections[id]]

\* Lines 161-182: the registry after the scan over all entries.
AfterDisconnect(s) ==
  [id \in DOMAIN connections \ HostedBy(s) |->
     IF id \in ViewedBy(s)
     THEN [connections[id] EXCEPT !.viewers = @ \ {s}]
     ELSE connections[id]]

RoomsAfterLeave(s) == [rooms EXCEPT ![s] = {}]

\* The scan without the emit of lines 175-178.
DisconnectOutInNoViewerLeft(reg, s) ==
  BagSum({EmitToRoomIn(connected \ {s}, RoomsAfterLeave(s), id,
                       "stream-ended", Empty, Empty, "", 0) :
            id \in HostedByIn(reg, s)})

\* Lines 164 and 175: what the scan emits, for the registry it scans.
DisconnectOutIn(reg, s) ==
  BagSum({EmitToRoomIn(connected \ {s}, RoomsAfterLeave(s), id,
                       "stream-ended", Empty, Empty, "", 0) :
            id \in HostedByIn(reg, s)})
  (+)
  BagSum({EmitToRoomIn(connected \ {s}, RoomsAfterLeave(s),
                       reg[id].hostSocketId,
                       "viewer-left", id, s, "", 0) : id \in ViewedByIn(reg, s)})

DisconnectOut(s) == DisconnectOutIn(connections, s)

Disconnect(s) ==
  /\ s \in connected
  /\ connected' = connected \ {s}
  /\ rooms' = RoomsAfterLeave(s)
  /\ connections' = AfterDisconnect(s)
  /\ hostLost' = hostLost \cup HostedBy(s)
  /\ lostJoined' = lostJoined \ HostedBy(s)
  /\ UNCHANGED <<accepted, nextUuid, clock, created>>
  /\ UNCHANGED <<coordVars, page>>

RelayNext ==
  \E s \in SocketIds :
    \/ Connect(s)
    \/ \E req \in RequestIds : CreateStream(s, req)
    \/ \E id \in RequestIds : JoinStream(s, id)
    \/ \E to \in RequestIds, sig \in Payloads : Signal(s, to, sig)
    \/ \E id \in RequestIds : EndStream(s, id)
    \/ Disconnect(s)

Spec == Init /\ [][RelayNext]_vars

(***************************************************************************)
(* Claims about the relay.                                                 *)
(***************************************************************************)
StreamCreatedTo(s, id) ==
  EmitToSocket(s, "stream-created", id, Empty, "", 0)

NotFoundTo(s) == EmitToSocket(s, "error", Empty, Empty, "Stream not found", 0)

\* C1: a create-stream whose id does not collide stores the session under the
\* id it returns (the requested id when one was given), and while that session
\* is in the registry a join-stream from any other connection is accepted: the
\* joiner gets exactly one joined-stream and no error and is put in the
\* viewer set.
C1_CreatedIdIsJoinable ==
  /\ \A s \in connected, req \in RequestIds :
       (~Collides(s, RequestedOrNew(req)) /\ nextUuid + UuidsUsed(s, req) <= MaxUuid)
       => /\ req # Empty => EffectiveId(s, req) = req
          /\ CreateOut(s, req) = StreamCreatedTo(s, EffectiveId(s, req))
          /\ EffectiveId(s, req) \in DOMAIN CreateRegistry(s, req)
          /\ CreateRegistry(s, req)[EffectiveId(s, req)].hostSocketId = s
          /\ JoinOutcomeIn(CreateRegistry(s, req), connected,
                           EffectiveId(s, req)) = "ok"
  /\ \A id \in DOMAIN connections :
       \A j \in connected \ {connections[id].hostSocketId} :
          /\ JoinOutcome(id) = "ok"
          /\ Copies(JoinOut(j, id), j, "joined-stream", Empty) = 1
          /\ Copies(JoinOut(j, id), j, "error", Empty) = 0
          /\ j \in JoinRegistry(j, id)[id].viewers

\* C1 witness: a connection other than the host has joined a created session.
C1_Witness ==
  \E id \in DOMAIN connections :
    \E j \in connections[id].viewers :
      j # connections[id].hostSocketId /\ j \in connected /\ id \in created

\* C2: a join-stream for an id that was never created gets the reply
\* 'Stream not found' and nothing else is sent; the registry and the rooms
\* stay as they are.
C2_NeverCreatedIsNotFound ==
  \A s \in connected, id \in RequestIds \ ({Empty} \cup created) :
    /\ JoinOut(s, id) = NotFoundTo(s)
    /\ JoinRegistry(s, id) = connections
    /\ JoinRooms(s, id) = rooms

\* C2 witness: the registry holds a session and a connected client can ask
\* for an id that was never created.
C2_Witness ==
  /\ connections # <<>>
  /\ \E s \in connected, id \in Names \ created : JoinOut(s, id) = NotFoundTo(s)

\* C3 as stated: after the host's transport disconnected, with no end-stream
\* in between, the first join-stream gets 'Stream host is disconnected' and
\* removes the session, and the second gets 'Stream not found'.
C3_JoinAfterHostLossIsUnreachable ==
  /\ \A id \in hostLost : \A j \in connected :
       /\ JoinOutcome(id) = "unreachable"
       /\ id \notin DOMAIN JoinRegistry(j, id)
  /\ \A id \in lostJoined : JoinOutcome(id) = "notfound"

\* C3 amended: the disconnect handler has already removed the session, so
\* the first join-stream after the host's disconnect, and the second, get
\* 'Stream not found' and change nothing; 'Stream host is disconnected' is
\* the reply in no reachable relay state.
C3_JoinAfterHostLossIsNotFound ==
  /\ \A id \in hostLost \cup lostJoined :
       /\ id \notin DOMAIN connections
       /\ \A j \in connected :
            JoinOut(j, id) = NotFoundTo(j) /\ JoinRegistry(j, id) = connections
  /\ \A id \in RequestIds : JoinOutcome(id) # "unreachable"

\* C3 witness: a session's host went away, a first join-stream for its id has
\* been handled, and a client is there to send the second.
C3_Witness == lostJoined # {} /\ connected # {}

\* C4: create-stream by the host of session S with the id S keeps S's host
\* and viewer set.
C4_RecreateKeepsViewers ==
  [][\A h \in SocketIds : \A id \in DOMAIN connections :
       (connections[id].hostSocketId = h /\ CreateStream(h, id))
       => /\ id \in DOMAIN connections'
          /\ connections'[id].hostSocketId = h
          /\ connections'[id].viewers = connections[id].viewers]_vars

\* C5: a create-stream for an id owned by another connection returns an id
\* that differs from the requested one and from every session id; the older
\* session is untouched, the new one is hosted by the requester, and a
\* join-stream to either is accepted and leaves the other as it is.
C5_CollisionGetsFreshId ==
  [][\A s \in SocketIds : \A req \in DOMAIN connections :
       (Collides(s, req) /\ CreateStream(s, req))
       => /\ EffectiveId(s, req) # req
          /\ EffectiveId(s, req) \notin DOMAIN connections
          /\ CreateOut(s, req) = StreamCreatedTo(s, EffectiveId(s, req))
          /\ connections'[req] = connections[req]
          /\ connections'[EffectiveId(s, req)].hostSocketId = s
          /\ DOMAIN connections' = DOMAIN connections \cup {EffectiveId(s, req)}
          /\ JoinOutcomeIn(connections', connected', req) = "ok"
          /\ JoinOutcomeIn(connections', connected', EffectiveId(s, req)) = "ok"]_vars

\* C5 witness: two connections asked for the same id; each hosts a session,
\* the second under a uuid, and each session has been joined.
C5_Witness ==
  \E a \in DOMAIN connections \ Uuids, b \in DOMAIN connections \cap Uuids :
    /\ connections[a].hostSocketId # connections[b].hostSocketId
    /\ connections[a].viewers # {}
    /\ connections[b].viewers # {}

\* The stream-ended messages of a bag of emissions.
StreamEnded(out) == {m \in BagToSet(out) : m.msg = "stream-ended"}

\* C6: when the host of a session goes away, every viewer of the session
\* gets exactly one stream-ended for it: one from the host's disconnect when
\* that comes alone, and one from the end-stream and none from the disconnect
\* when the coordinator's shutdown sends end-stream and then disconnects.
\* Either way the session is gone afterwards.
C6_OneStreamEndedPerViewer ==
  \A h \in connected : \A id \in HostedBy(h) :
    /\ id \notin DOMAIN AfterDisconnect(h)
    /\ id \notin DOMAIN EndRegistry(h, id)
    /\ \A v \in connections[id].viewers \ {h} :
         /\ Copies(DisconnectOut(h), v, "stream-ended", id) = 1
         /\ Copies(EndOut(h, id), v, "stream-ended", id) = 1
         /\ Copies(DisconnectOutIn(EndRegistry(h, id), h), v,
                   "stream-ended", id) = 0

\* C6 witness: the host of a session with a joined viewer went away, and
\* the viewer is still connected.
C6_Witness ==
  \E id \in hostLost : \E v \in connected : id \in rooms[v]

\* C7: a signal addressed to connection x is delivered to x and to nobody
\* else.
C7_SignalReachesOnlyItsTarget ==
  \A s \in connected, x \in connected, sig \in Payloads :
    \A m \in BagToSet(SignalOut(s, x, sig)) : m.to = x

\* C8: stream-ended goes only to the current viewers of the session that
\* ends, not to its host and not to any other connection.
C8_StreamEndedOnlyToViewers ==
  \A h \in connected : \A id \in HostedBy(h) :
    /\ \A m \in StreamEnded(EndOut(h, id)) :
         m.to # h /\ m.to \in connections[id].viewers
    /\ \A m \in StreamEnded(DisconnectOut(h)) :
         m.room = id => (m.to # h /\ m.to \in connections[id].viewers)

\* C16: an end-stream from a connection that is not the host of the named
\* session, or that names no session, changes nothing and notifies nobody.
C16_EndStreamByNonHostIsNoOp ==
  \A s \in connected, id \in RequestIds :
    (id \notin DOMAIN connections \/ connections[id].hostSocketId # s)
    => /\ EndRegistry(s, id) = connections
       /\ EndOut(s, id) = EmptyBag

\* C16 witness: a session with a viewer, and a connected client that is not
\* its host and can send end-stream for it.
C16_Witness ==
  \E id \in DOMAIN connections : \E s \in connected :
    /\ connections[id].hostSocketId # s
    /\ connections[id].viewers # {}
    /\ EndOut(s, id) = EmptyBag

\* The viewer-left copies a bag of emissions holds for connection h about
\* session id.
ViewerLeftTo(out, h, id) ==
  {m \in BagToSet(out) : m.msg = "viewer-left" /\ m.to = h /\ m.id = id}

\* C17: when a connection disconnects, every session it hosted is removed;
\* from every other session it viewed it is taken out of the viewer set and
\* the session's host gets exactly one viewer-left, with the leaver's id and
\* the session's id; every other session stays as it is and its host gets no
\* viewer-left for it.
C17_DisconnectNotifiesHosts ==
  [][\A s \in SocketIds :
       Disconnect(s)
       => \A id \in DOMAIN connections :
            LET h == connections[id].hostSocketId
                left == ViewerLeftTo(DisconnectOut(s), h, id)
            IN IF h = s THEN id \notin DOMAIN connections'
               ELSE /\ id \in DOMAIN connections'
                    /\ connections'[id].hostSocketId = h
                    /\ connections'[id].createdAt = connections[id].createdAt
                    /\ connections'[id].viewers = connections[id].viewers \ {s}
                    /\ IF s \in connections[id].viewers
                       THEN /\ Cardinality(left) = 1
                            /\ \A m \in left :
                                 m.who = s /\ CopiesIn(m, DisconnectOut(s)) = 1
                       ELSE left = {}]_vars

\* C17 witness: a connected client views a session of another connection
\* and hosts a session of its own.
C17_Witness ==
  \E s \in connected : ViewedBy(s) # {} /\ HostedBy(s) # {}

\* C18: a signal addressed to a connection that is not connected is
\* delivered to nobody.
C18_SignalToAbsentTargetIsDropped ==
  \A s \in connected, x \in SocketIds \ connected, sig \in Payloads :
    SignalOut(s, x, sig) = EmptyBag

(***************************************************************************)
(* The coordinator: class WebRTCConnection.                                *)
(*                                                                         *)
(* An RTCPeerConnection is a browser object.  Its asynchronous methods     *)
(* (createOffer, createAnswer, setLocalDescription, setRemoteDescription,  *)
(* addIceCandidate) are queued on the object's operations chain and settle *)
(* one at a time, in the order of the calls; the handler that awaits one   *)
(* continues when it settles.  An entry of a chain therefore carries the   *)
(* handler that awaits it (task) and that handler's local variables.       *)
(*                                                                         *)
(* Time.  The coordinator reads the clock only to compare the age of a     *)
(* peer's last connection attempt with the spacing of 5000 ms, so the      *)
(* model keeps ages instead of time stamps: lastConnectionAttempt[p] is    *)
(* the number of ms since the Date.now() stored there, TimePasses adds     *)
(* TickMs to every age, and all ages above the spacing are one value.  A   *)
(* timer that is set can fire at any later step.                           *)
(***************************************************************************)
SignalTypes == {"offer", "answer", "candidate", "viewer-ready"}

\* Program constants.
MaxPeerRetries == 3            \* errorCount <= 3
ReconnectSpacing == 5000       \* timeSinceLastAttempt > 5000
MaxReconnectAttempts == 10     \* connection.maxReconnectAttempts

\* The address of the relay in the log of what the coordinator sent.
RelayId == <<"relay", 0>>

\* The coordinator's objects as one value, for the operators below.
World ==
  [co |-> co, pcs |-> pcs, certWait |-> certWait, sent |-> sent,
   timers |-> timers, emitted |-> emitted, socketUp |-> socketUp]

SetWorld(w) ==
  /\ co' = w.co
  /\ pcs' = w.pcs
  /\ certWait' = w.certWait
  /\ sent' = w.sent
  /\ timers' = w.timers
  /\ emitted' = w.emitted
  /\ socketUp' = w.socketUp

\* this.peerConnections.has(peerId)
Has(w, p) == p \in DOMAIN w.co.peerConnections

\* map.get(key) || dflt
GetOr(f, key, dflt) == IF key \in DOMAIN f THEN f[key] ELSE dflt

\* this._emitEvent(event, {peerId})
EmitEvent(w, event, p) ==
  [w EXCEPT !.emitted = @ \cup {[event |-> event, peer |-> p]}]

\* setTimeout / setInterval: a pending timer is named by its kind, the peer
\* its callback is about, and a number: the least number no pending timer of
\* that kind and peer has, except for an ICE gathering timer, which carries
\* the number of the connection it was set for.
Timer(kind, p, id) == [kind |-> kind, peer |-> p, id |-> id]

Pending(w, kind, p) == {t \in w.timers : t.kind = kind /\ t.peer = p}

SetTimer(w, kind, p) ==
  LET used == {t.id : t \in Pending(w, kind, p)}
      id == CHOOSE n \in 1..(Cardinality(used) + 1) :
              n \notin used /\ \A m \in 1..(n - 1) : m \in used
  IN [w EXCEPT !.timers = @ \cup {Timer(kind, p, id)}]

\* new RTCPeerConnection(...): stable, no descriptions, ICE state new.
NewPc(p) ==
  [peer |-> p, signalingState |-> "stable", localDescription |-> FALSE,
   remoteDescription |-> FALSE, iceConnectionState |-> "new",
   applied |-> <<>>, chain |-> <<>>]

Op(op, desc, cand, task, rest) ==
  [op |-> op, desc |-> desc, cand |-> cand, task |-> task, rest |-> rest]

\* A call of an asynchronous method of the i-th RTCPeerConnection.
Enqueue(w, i, o) == [w EXCEPT !.pcs[i].chain = Append(@, o)]

\* The outcomes an operation can settle with on pc: TRUE resolved, FALSE
\* rejected.  addIceCandidate rejects while there is no remote description;
\* an answer is only accepted, and only created, for a pending offer; a
\* remote offer that meets a pending local offer is rolled back to or
\* rejected, depending on the browser.
Outcomes(pc, o) ==
  IF pc.signalingState = "closed" THEN {FALSE}
  ELSE CASE o.op = "createOffer" -> {TRUE}
         [] o.op = "createAnswer" -> {pc.signalingState = "have-remote-offer"}
         [] o.op = "setLocalDescription" ->
              IF o.desc = "offer"
              THEN {pc.signalingState \in {"stable", "have-local-offer"}}
              ELSE {pc.signalingState = "have-remote-offer"}
         [] o.op = "setRemoteDescription" ->
              IF o.desc = "answer"
              THEN {pc.signalingState = "have-local-offer"}
              ELSE IF pc.signalingState = "have-local-offer"
                   THEN {TRUE, FALSE}
                   ELSE {TRUE}
         [] o.op = "addIceCandidate" -> {pc.remoteDescription}

\* pc after operation o succeeded on it.
PcAfter(pc, o) ==
  CASE o.op = "setLocalDescription" ->
         [pc EXCEPT !.signalingState =
                      IF o.desc = "offer" THEN "have-local-offer" ELSE "stable",
                    !.localDescription = TRUE]
    [] o.op = "setRemoteDescription" ->
         [pc EXCEPT !.signalingState =
                      IF o.desc = "offer" THEN "have-remote-offer" ELSE "stable",
                    !.remoteDescription = TRUE]
    [] o.op = "addIceCandidate" -> [pc EXCEPT !.applied = Append(@, o.cand)]
    [] OTHER -> pc

\* peerConnection.close(): the object is closed for good, and the
\* operations still on its chain never settle.
Close(w, i) ==
  [w EXCEPT !.pcs[i].signalingState = "closed",
            !.pcs[i].iceConnectionState = "closed",
            !.pcs[i].chain = <<>>]

\* _cleanupPeerConnection: the peer's entries are deleted and its ICE
\* gathering timer is cleared; the connection object is not touched.
CleanupPeerConnection(w, p) ==
  [w EXCEPT !.co.peerConnections = Remove(@, {p}),
            !.co.dataChannels = Remove(@, {p}),
            !.co.pendingCandidates = Remove(@, {p}),
            !.co.iceGatheringComplete = Remove(@, {p}),
            !.co.iceGatheringTimeouts = Remove(@, {p}),
            !.co.connectionErrors = Remove(@, {p}),
            !.co.lastConnectionAttempt = Remove(@, {p}),
            !.timers =
               IF p \in DOMAIN w.co.iceGatheringTimeouts
               THEN @ \ {Timer("iceGathering", p, w.co.iceGatheringTimeouts[p])}
               ELSE @]

DisconnectFromPeer(w, p) ==
  IF ~Has(w, p) THEN w
  ELSE CleanupPeerConnection(Close(w, w.co.peerConnections[p]), p)

\* _createPeerConnection once the certificate is there: a new object, stored
\* under the peer whatever is stored there, the peer's bookkeeping reset and
\* a new ICE gathering timer set.
CreatePeerConnection(w, p) ==
  LET i == Len(w.pcs) + 1 IN
  [w EXCEPT !.pcs = Append(@, NewPc(p)),
            !.co.peerConnections = Put(@, p, i),
            !.co.pendingCandidates = Put(@, p, <<>>),
            !.co.iceGatheringComplete = Put(@, p, FALSE),
            !.co.connectionErrors = Put(@, p, 0),
            !.co.lastConnectionAttempt = Put(@, p, 0),
            !.co.iceGatheringTimeouts = Put(@, p, i),
            !.timers = @ \cup {Timer("iceGathering", p, i)}]

\* connectToPeer up to its first await.
ConnectToPeer(w, p) ==
  IF Has(w, p) THEN w
  ELSE [w EXCEPT !.certWait =
                   Append(@, [task |-> "connect", peer |-> p,
                              type |-> "none", cand |-> 0])]

\* _handleOffer up to its first await.
HandleOffer(w, p) ==
  LET w1 == IF Has(w, p) THEN w
            ELSE [w EXCEPT !.pcs = Append(@, NewPc(p)),
                           !.co.peerConnections = Put(@, p, Len(w.pcs) + 1)]
  IN Enqueue(w1, w1.co.peerConnections[p],
             Op("setRemoteDescription", "offer", 0, "offer", <<>>))

\* _handleAnswer up to its first await; without a connection it throws.
HandleAnswer(w, p) ==
  IF ~Has(w, p) THEN w
  ELSE Enqueue(w, w.co.peerConnections[p],
               Op("setRemoteDescription", "answer", 0, "answer", <<>>))

\* _handleIceCandidate up to its await: the candidate is stored when the
\* peer has no connection, and handed to addIceCandidate otherwise.
HandleIceCandidate(w, p, c) ==
  IF ~Has(w, p)
  THEN [w EXCEPT !.co.pendingCandidates =
                   Put(@, p, Append(IF p \in DOMAIN @ THEN @[p] ELSE <<>>, c))]
  ELSE Enqueue(w, w.co.peerConnections[p],
               Op("addIceCandidate", "none", c, "candidate", <<>>))

\* The 'signal' handler from the lookup of the connection on.
Dispatch(w, p, sig) ==
  CASE sig.type = "offer" -> HandleOffer(w, p)
    [] sig.type = "answer" -> HandleAnswer(w, p)
    [] sig.type = "candidate" -> HandleIceCandidate(w, p, sig.cand)
    [] sig.type = "viewer-ready" ->
         IF w.co.isHost /\ ~Has(w, p) THEN ConnectToPeer(w, p) ELSE w

\* The 'signal' handler up to its first await.
OnSignal(w, p, sig) ==
  IF ~Has(w, p)
  THEN [w EXCEPT !.certWait =
                   Append(@, [task |-> "signal", peer |-> p,
                              type |-> sig.type, cand |-> sig.cand])]
  ELSE Dispatch(w, p, sig)

\* What a call t of _createPeerConnection does when its certificate is
\* there, and what its caller does next: the 'signal' handler dispatches,
\* connectToPeer opens the data channel and asks for an offer.
AfterCertificate(w, t) ==
  LET i == Len(w.pcs) + 1
      w1 == CreatePeerConnection(w, t.peer)
  IN IF t.task = "signal"
     THEN Dispatch(w1, t.peer, [type |-> t.type, cand |-> t.cand])
     ELSE Enqueue([w1 EXCEPT !.co.dataChannels = Put(@, t.peer, i)], i,
                  Op("createOffer", "none", 0, "connect", <<>>))

\* signaling.emit('signal', {to, signal}); pc is the object the description
\* was made by.
EmitSignal(w, p, type, i) ==
  [w EXCEPT !.sent = Append(@, [to |-> p, type |-> type, pc |-> i])]

\* The catch block of connectToPeer.
ConnectFailed(w, p) == IF Has(w, p) THEN DisconnectFromPeer(w, p) ELSE w

\* The loop of _handleAnswer over the stored candidates, from candidate
\* Head(cands) on; after the last one the peer's store is emptied.
FlushPending(w, i, cands) ==
  IF cands = <<>>
  THEN [w EXCEPT !.co.pendingCandidates = Put(@, w.pcs[i].peer, <<>>)]
  ELSE Enqueue(w, i, Op("addIceCandidate", "none", Head(cands), "answer",
                        Tail(cands)))

\* The handler that awaited operation o of the i-th connection goes on to
\* its next await or to its end; ok tells how o settled.
Continue(w, i, o, ok) ==
  LET p == w.pcs[i].peer IN
  CASE o.task = "offer" ->
         IF ~ok THEN w
         ELSE IF o.op = "setRemoteDescription"
         THEN Enqueue(w, i, Op("createAnswer", "none", 0, "offer", <<>>))
         ELSE IF o.op = "createAnswer"
         THEN Enqueue(w, i, Op("setLocalDescription", "answer", 0, "offer", <<>>))
         ELSE IF w.co.signaling THEN EmitSignal(w, p, "answer", i) ELSE w
    [] o.task = "answer" ->
         IF ~ok THEN w
         ELSE IF o.op = "setRemoteDescription"
         THEN IF p \in DOMAIN w.co.pendingCandidates
              THEN FlushPending(w, i, w.co.pendingCandidates[p])
              ELSE w
         ELSE FlushPending(w, i, o.rest)
    [] o.task = "candidate" -> w
    [] o.task = "connect" ->
         IF ~ok THEN ConnectFailed(w, p)
         ELSE IF o.op = "createOffer"
         THEN Enqueue(w, i, Op("setLocalDescription", "offer", 0, "connect", <<>>))
         ELSE IF w.co.signaling THEN EmitSignal(w, p, "offer", i)
         ELSE ConnectFailed(w, p)

(***************************************************************************)
(* Connection trouble, the signaling socket, shutdown                      *)
(***************************************************************************)
\* _handleConnectionIssue(peerId, issue); issue is only logged and passed on
\* in the event.  A peer without a stored attempt counts as (Date.now() - 0)
\* ms old, which is above the spacing.
HandleConnectionIssue(w, p) ==
  LET errorCount == GetOr(w.co.connectionErrors, p, 0) + 1
      counted == [w EXCEPT !.co.connectionErrors = Put(@, p, errorCount)]
      timeSinceLastAttempt ==
        GetOr(w.co.lastConnectionAttempt, p, ReconnectSpacing + 1)
      shouldReconnect ==
        errorCount <= MaxPeerRetries /\ timeSinceLastAttempt > ReconnectSpacing
  IN IF shouldReconnect /\ w.co.isHost
     THEN SetTimer(
            CleanupPeerConnection(
              [counted EXCEPT !.co.lastConnectionAttempt = Put(@, p, 0)], p),
            "reconnectPeer", p)
     ELSE EmitEvent(counted, "connection-failed", p)

\* oniceconnectionstatechange without the reset of line 884.
OnIceConnectionStateNoReset(w, p, s) ==
  CASE s \in {"disconnected", "failed"} -> HandleConnectionIssue(w, p)
    [] s = "closed" -> CleanupPeerConnection(w, p)
    [] OTHER -> w

\* peerConnection.oniceconnectionstatechange, for the connection made for
\* peer p, when its ICE state has become s.
OnIceConnectionState(w, p, s) ==
  CASE s \in {"connected", "completed"} ->
         [w EXCEPT !.co.connectionErrors = Put(@, p, 0)]
    [] s \in {"disconnected", "failed"} -> HandleConnectionIssue(w, p)
    [] s = "closed" -> CleanupPeerConnection(w, p)
    [] OTHER -> w

\* peerConnection.onconnectionstatechange, likewise.
OnConnectionState(w, p, s) ==
  CASE s = "connected" -> EmitEvent(w, "peer-connected", p)
    [] s = "disconnected" -> EmitEvent(w, "peer-disconnected", p)
    [] s = "failed" -> HandleConnectionIssue(EmitEvent(w, "peer-failed", p), p)
    [] s = "closed" -> CleanupPeerConnection(w, p)
    [] OTHER -> w

\* The ICE transport of the i-th connection changes to s: the browser sets
\* the ICE connection state and fires iceconnectionstatechange, then sets
\* the connection state, which follows the ICE state (completed is still
\* connected), and fires connectionstatechange if it changed.
TransportChange(w, i, s) ==
  LET p == w.pcs[i].peer
      w1 == OnIceConnectionState([w EXCEPT !.pcs[i].iceConnectionState = s], p, s)
  IN IF s = "completed" THEN w1 ELSE OnConnectionState(w1, p, s)

\* The 'disconnect' handler without the test of line 222.
OnSignalingDisconnectUnbounded(w) ==
  SetTimer([w EXCEPT !.co.connectionState = "signaling_disconnected",
                     !.co.reconnectAttempts = @ + 1],
           "relayReconnect", Empty)

\* signaling.on('disconnect')
OnSignalingDisconnect(w) ==
  LET w1 == [w EXCEPT !.co.connectionState = "signaling_disconnected"] IN
  IF w.co.reconnectAttempts < MaxReconnectAttempts
  THEN SetTimer([w1 EXCEPT !.co.reconnectAttempts = @ + 1],
                "relayReconnect", Empty)
  ELSE EmitEvent(w1, "error", Empty)

\* this.signaling.disconnect(): a connected socket is closed and fires
\* 'disconnect' before the call returns; a socket that is not connected
\* fires nothing.
SignalingDisconnect(w) ==
  IF w.socketUp THEN OnSignalingDisconnect([w EXCEPT !.socketUp = FALSE]) ELSE w

\* this.signaling.emit(event, id)
EmitToRelay(w, type) ==
  [w EXCEPT !.sent = Append(@, [to |-> RelayId, type |-> type, pc |-> 0])]

RECURSIVE CleanupAll(_, _)
\* The loop of shutdown over the entries of peerConnections.
CleanupAll(w, peers) ==
  IF peers = {} THEN w
  ELSE LET p == CHOOSE x \in peers : TRUE
       IN CleanupAll(CleanupPeerConnection(w, p), peers \ {p})

\* shutdown without the end-stream of lines 627-629.
ShutdownNoEndStream(w) ==
  LET w1 == CleanupAll(w, DOMAIN w.co.peerConnections)
      w2 == [w1 EXCEPT !.co.peerConnections = <<>>,
                       !.co.dataChannels = <<>>,
                       !.co.pendingCandidates = <<>>,
                       !.co.iceGatheringComplete = <<>>,
                       !.co.iceGatheringTimeouts = <<>>,
                       !.co.connectionErrors = <<>>,
                       !.co.lastConnectionAttempt = <<>>]
      w3 == IF w2.co.statsInterval
            THEN [w2 EXCEPT !.timers = @ \ {Timer("stats", Empty, 1)},
                            !.co.statsInterval = FALSE]
            ELSE w2
      w4 == IF w3.co.signaling
            THEN [SignalingDisconnect(w3) EXCEPT !.co.signaling = FALSE]
            ELSE w3
  IN [w4 EXCEPT !.co.connectionId = Empty,
                !.co.connectionState = "disconnected",
                !.co.reconnectAttempts = 0]

\* shutdown with the end-stream of line 628 sent by every host, whatever
\* this.signaling and this.connectionId are.
ShutdownEndsUnguarded(w) ==
  LET w1 == ShutdownNoEndStream(w) IN
  IF w.co.isHost THEN EmitToRelay(w1, "end-stream") ELSE w1

\* shutdown()
Shutdown(w) ==
  LET w1 == CleanupAll(w, DOMAIN w.co.peerConnections)
      w2 == [w1 EXCEPT !.co.peerConnections = <<>>,
                       !.co.dataChannels = <<>>,
                       !.co.pendingCandidates = <<>>,
                       !.co.iceGatheringComplete = <<>>,
                       !.co.iceGatheringTimeouts = <<>>,
                       !.co.connectionErrors = <<>>,
                       !.co.lastConnectionAttempt = <<>>]
      w3 == IF w2.co.statsInterval
            THEN [w2 EXCEPT !.timers = @ \ {Timer("stats", Empty, 1)},
                            !.co.statsInterval = FALSE]
            ELSE w2
      w4 == IF w3.co.signaling
            THEN [SignalingDisconnect(
                    IF w3.co.isHost /\ w3.co.connectionId # Empty
                    THEN EmitToRelay(w3, "end-stream")
                    ELSE w3)
                  EXCEPT !.co.signaling = FALSE]
            ELSE w3
  IN [w4 EXCEPT !.co.connectionId = Empty,
                !.co.connectionState = "disconnected",
                !.co.reconnectAttempts = 0]

(***************************************************************************)
(* initialize()                                                            *)
(***************************************************************************)
\* _generateConnectionId(): some random string.
GeneratedId == <<"conn", 1>>
\* the id the relay answers with when it does not keep the requested one
RenamedId == <<"conn", 2>>

\* The payloads of the relay's replies: 'stream-created' carries the id, a
\* string; 'joined-stream' carries an object {streamId, hostSocketId}.
StreamCreatedPayload(id) == [kind |-> "string", streamId |-> id]
JoinedStreamPayload(id) == [kind |-> "object", streamId |-> id]

\* payload === this.connectionId, the connection id being a string
IsConnectionId(payload, id) == payload.kind = "string" /\ payload.streamId = id

\* The catch block of initialize.
InitFailed(w) ==
  LET w1 == [w EXCEPT !.co.connectionState = "disconnected"] IN
  IF w1.co.signaling
  THEN [SignalingDisconnect(w1) EXCEPT !.co.signaling = FALSE]
  ELSE w1

\* initialize up to its first await: the socket is made and starts to
\* connect, the handlers of _setupSignalingEvents are registered.
Initialize(host, existing) ==
  /\ init.at = "constructed"
  /\ ~down
  /\ co' = [co EXCEPT !.isHost = host, !.signaling = TRUE]
  /\ init' = [at |-> "connecting", existing |-> existing]
  /\ UNCHANGED <<pcs, certWait, sent, ncand, heard, offersApplied, events,
                 timers, emitted, socketUp, down, streak, relayVars, page>>

\* 'connect': the socket is connected, the first time or again after its
\* transport was lost.  The handler of line 105 stays registered; the first
\* time, initialize goes on to create or join.
OnConnect ==
  /\ co.signaling
  /\ ~socketUp
  /\ LET w1 == [World EXCEPT !.socketUp = TRUE,
                             !.co.connectionState = "connected_to_signaling"]
     IN
     IF init.at # "connecting"
     THEN SetWorld(w1) /\ init' = init
     ELSE IF co.isHost
     THEN /\ SetWorld(EmitToRelay([w1 EXCEPT !.co.connectionId = GeneratedId],
                                  "create-stream"))
          /\ init' = [init EXCEPT !.at = "creating"]
     ELSE IF init.existing # Empty
     THEN /\ SetWorld(EmitToRelay([w1 EXCEPT !.co.connectionId = init.existing],
                                  "join-stream"))
          /\ init' = [init EXCEPT !.at = "joining"]
     ELSE /\ SetWorld(InitFailed(w1))
          /\ init' = [init EXCEPT !.at = "failed"]
  /\ UNCHANGED <<ncand, heard, offersApplied, events, down, streak, relayVars,
                 page>>

\* The relay's reply to create-stream or join-stream; on success initialize
\* starts the stats interval and returns.
OnReply(payload) ==
  /\ co.signaling
  /\ socketUp
  /\ \/ init.at = "creating" /\ payload.kind = "string"
     \/ init.at = "joining" /\ payload.kind = "object"
                            /\ payload.streamId = co.connectionId
  /\ IF IsConnectionId(payload, co.connectionId)
     THEN /\ init' = [init EXCEPT !.at = "ready"]
          /\ SetWorld([World EXCEPT !.co.statsInterval = TRUE,
                                    !.timers = @ \cup {Timer("stats", Empty, 1)}])
     ELSE /\ init' = [init EXCEPT !.at = "failed"]
          /\ SetWorld(InitFailed(World))
  /\ UNCHANGED <<ncand, heard, offersApplied, events, down, streak, relayVars,
                 page>>

\* The rejection of the join wait with the fixed text for every error.
JoinRejectionGeneric(error) == "Failed to join stream"

\* The message of the Error the join wait is rejected with on the relay's
\* 'error' reply (line 178): error.message || 'Failed to join stream'.  The
\* catch block throws the same Error on (205).
JoinRejection(error) ==
  IF error.message # "" THEN error.message ELSE "Failed to join stream"

\* The waits of initialize: for 'connect', for 'stream-created', for
\* 'joined-stream'.
InitWaits == {"connecting", "creating", "joining"}

\* The timers of the waits, with the test of the 20 s timer (line 128) in
\* the 5 s timers as well.
InitTimerRejectsUnconnected(w, at) ==
  w.co.connectionState # "connected_to_signaling"

\* Whether the timer of the wait rejects when it fires: the 20 s timer of
\* the connect wait only if the coordinator is not connected (127-131), the
\* 5 s timers of the other waits always (154-156, 182-184).
InitTimerRejects(w, at) ==
  at = "connecting" => w.co.connectionState # "connected_to_signaling"

\* The timer of the wait initialize is in fires and rejects its promise.
InitTimerFires ==
  /\ init.at \in InitWaits
  /\ InitTimerRejects(World, init.at)
  /\ init' = [init EXCEPT !.at = "failed"]
  /\ SetWorld(InitFailed(World))
  /\ UNCHANGED <<ncand, heard, offersApplied, events, down, streak, relayVars,
                 page>>

\* connect_error, connect_timeout or 'error' during the connect wait
\* (111-124), or the relay's 'error' reply to join-stream (177-179), rejects
\* the promise.
InitErrorEvent ==
  /\ \/ init.at = "connecting"
     \/ init.at = "joining" /\ co.signaling /\ socketUp
  /\ init' = [init EXCEPT !.at = "failed"]
  /\ SetWorld(InitFailed(World))
  /\ UNCHANGED <<ncand, heard, offersApplied, events, down, streak, relayVars,
                 page>>

\* A timer of initialize, connect_error or an 'error' event rejects the
\* promise initialize is waiting on.
InitRejected == InitTimerFires \/ InitErrorEvent

(***************************************************************************)
(* The relay's events, the browser's events, timers, and the steps of the  *)
(* handlers.                                                               *)
(***************************************************************************)
\* The socket exists and is connected: the relay's events can arrive.
SignalingLive == co.signaling /\ socketUp

\* 'viewer-joined': the relay sends it to the host of a stream.
OnViewerJoined(p) ==
  /\ SignalingLive
  /\ init.at = "ready"
  /\ events' = events + 1
  /\ IF co.isHost
     THEN SetWorld(ConnectToPeer(EmitEvent(World, "viewer-joined", p), p))
     ELSE UNCHANGED <<co, pcs, certWait, sent, timers, emitted, socketUp>>
  /\ UNCHANGED <<init, ncand, heard, offersApplied, down, streak, relayVars,
                 page>>

\* 'viewer-left'
OnViewerLeft(p) ==
  /\ SignalingLive
  /\ init.at = "ready"
  /\ events' = events + 1
  /\ IF co.isHost
     THEN SetWorld(DisconnectFromPeer(EmitEvent(World, "viewer-left", p), p))
     ELSE UNCHANGED <<co, pcs, certWait, sent, timers, emitted, socketUp>>
  /\ UNCHANGED <<init, ncand, heard, offersApplied, down, streak, relayVars,
                 page>>

\* 'stream-ended': a viewer shuts down.
OnStreamEnded ==
  /\ SignalingLive
  /\ events' = events + 1
  /\ IF ~co.isHost
     THEN /\ SetWorld(Shutdown(EmitEvent(World, "stream-ended", Empty)))
          /\ down' = TRUE
     ELSE UNCHANGED <<co, pcs, certWait, sent, timers, emitted, socketUp, down>>
  /\ UNCHANGED <<init, ncand, heard, offersApplied, streak, relayVars, page>>

\* 'signal' from peer p.  Candidates are numbered in the order they arrive.
OnSignalEvent(p, type) ==
  /\ SignalingLive
  /\ type = "candidate" => ncand[p] < MaxCandidates
  /\ events' = events + 1
  /\ ncand' = IF type = "candidate" THEN [ncand EXCEPT ![p] = @ + 1] ELSE ncand
  /\ heard' = heard \cup {<<p, type>>}
  /\ SetWorld(OnSignal(World, p,
                       [type |-> type,
                        cand |-> IF type = "candidate" THEN ncand[p] + 1 ELSE 0]))
  /\ UNCHANGED <<init, offersApplied, down, streak, relayVars, page>>

\* 'disconnect': the socket lost its transport.  It reconnects by itself.
OnDisconnect ==
  /\ SignalingLive
  /\ events' = events + 1
  /\ SetWorld(OnSignalingDisconnect([World EXCEPT !.socketUp = FALSE]))
  /\ UNCHANGED <<init, ncand, heard, offersApplied, down, streak, relayVars,
                 page>>

\* RTCPeerConnection.generateCertificate settles for the k-th waiting call.
CertificateReady(k) ==
  /\ k \in DOMAIN certWait
  /\ SetWorld(AfterCertificate(
       [World EXCEPT !.certWait = SubSeq(@, 1, k - 1) \o SubSeq(@, k + 1, Len(@))],
       certWait[k]))
  /\ UNCHANGED <<init, ncand, heard, offersApplied, events, down, streak,
                 relayVars, page>>

\* The first operation on the chain of the i-th connection settles, and the
\* handler awaiting it continues.
OperationSettles(i) ==
  /\ i \in DOMAIN pcs
  /\ pcs[i].chain # <<>>
  /\ LET o == Head(pcs[i].chain) IN
     \E ok \in Outcomes(pcs[i], o) :
       LET pc1 == IF ok THEN PcAfter(pcs[i], o) ELSE pcs[i]
           w1 == [World EXCEPT !.pcs[i] = [pc1 EXCEPT !.chain = Tail(@)]]
       IN /\ SetWorld(Continue(w1, i, o, ok))
          /\ offersApplied' =
               IF ok /\ o.op = "setRemoteDescription" /\ o.desc = "offer"
               THEN [offersApplied EXCEPT ![pcs[i].peer] = @ + 1]
               ELSE offersApplied
  /\ UNCHANGED <<init, ncand, heard, events, down, streak, relayVars, page>>

\* The ICE states a transport can go to from each state, short of closing.
IceNext(s) ==
  CASE s = "new" -> {"connected", "failed"}
    [] s = "connected" -> {"completed", "disconnected"}
    [] s = "completed" -> {"disconnected"}
    [] s = "disconnected" -> {"connected", "failed"}
    [] OTHER -> {}

\* The ICE transport of the i-th connection, which has both descriptions,
\* changes state.  streak counts the peer's transitions to failed since one
\* of its connections was last connected.
IceConnectionStateChange(i, s) ==
  /\ i \in DOMAIN pcs
  /\ pcs[i].localDescription /\ pcs[i].remoteDescription
  /\ s \in IceNext(pcs[i].iceConnectionState)
  /\ events' = events + 1
  /\ streak' = [streak EXCEPT ![pcs[i].peer] =
                  CASE s = "failed" -> @ + 1
                    [] s \in {"connected", "completed"} -> 0
                    [] OTHER -> @]
  /\ SetWorld(TransportChange(World, i, s))
  /\ UNCHANGED <<init, ncand, heard, offersApplied, down, relayVars, page>>

\* The age an attempt of age a has after TickMs more.
Older(a) == IF a + TickMs > ReconnectSpacing THEN ReconnectSpacing + 1 ELSE a + TickMs

TimePasses ==
  /\ \E p \in DOMAIN co.lastConnectionAttempt :
       co.lastConnectionAttempt[p] <= ReconnectSpacing
  /\ co' = [co EXCEPT !.lastConnectionAttempt =
                        [p \in DOMAIN co.lastConnectionAttempt |->
                           Older(co.lastConnectionAttempt[p])]]
  /\ UNCHANGED <<pcs, init, certWait, sent, ncand, heard, offersApplied,
                 events, timers, emitted, socketUp, down, streak, relayVars,
                 page>>

\* The callback of an ICE gathering timer (lines 428-433).
IceGatheringTimerFires(t) ==
  /\ t \in timers
  /\ t.kind = "iceGathering"
  /\ LET w1 == [World EXCEPT !.timers = @ \ {t}] IN
     SetWorld(IF ~GetOr(co.iceGatheringComplete, t.peer, FALSE)
              THEN [w1 EXCEPT !.co.iceGatheringComplete = Put(@, t.peer, TRUE)]
              ELSE w1)
  /\ UNCHANGED <<init, ncand, heard, offersApplied, events, down, streak,
                 relayVars, page>>

\* The callback of a timer of _handleConnectionIssue (lines 789-793).
ReconnectTimerFires(t) ==
  /\ t \in timers
  /\ t.kind = "reconnectPeer"
  /\ SetWorld(ConnectToPeer([World EXCEPT !.timers = @ \ {t}], t.peer))
  /\ UNCHANGED <<init, ncand, heard, offersApplied, events, down, streak,
                 relayVars, page>>

\* The callback of a timer of the 'disconnect' handler (lines 226-228):
\* this.signaling.connect() changes nothing on a socket that is connected or
\* connecting, and throws when this.signaling is null.
RelayReconnectTimerFires(t) ==
  /\ t \in timers
  /\ t.kind = "relayReconnect"
  /\ timers' = timers \ {t}
  /\ UNCHANGED <<co, pcs, init, certWait, sent, ncand, heard, offersApplied,
                 events, emitted, socketUp, down, streak, relayVars, page>>

\* The callback of the stats interval: _collectStats reads the connections'
\* statistics; the interval stays.
StatsTimerFires ==
  /\ Timer("stats", Empty, 1) \in timers
  /\ UNCHANGED vars

\* A call of shutdown().
ShutdownCall ==
  /\ SetWorld(Shutdown(World))
  /\ down' = TRUE
  /\ UNCHANGED <<init, ncand, heard, offersApplied, events, streak, relayVars,
                 page>>

\* A call of disconnectFromPeer(peerId).
DisconnectFromPeerCall(p) ==
  /\ SetWorld(DisconnectFromPeer(World, p))
  /\ UNCHANGED <<init, ncand, heard, offersApplied, events, down, streak,
                 relayVars, page>>

IceStates == {"connected", "completed", "disconnected", "failed"}

\* The coordinator with its signaling: whatever the relay and the peers may
\* send, while the transports stay as they are and nobody shuts down.
CoordNext ==
  \/ \E host \in BOOLEAN, existing \in {Empty, GeneratedId} :
       Initialize(host, existing)
  \/ OnConnect
  \/ \E id \in {GeneratedId, RenamedId} : OnReply(StreamCreatedPayload(id))
  \/ OnReply(JoinedStreamPayload(co.connectionId))
  \/ InitRejected
  \/ \E p \in PeerIds : events < MaxEvents /\ OnViewerJoined(p)
  \/ \E p \in PeerIds, type \in SignalTypes :
       events < MaxEvents /\ OnSignalEvent(p, type)
  \/ \E k \in DOMAIN certWait : CertificateReady(k)
  \/ \E i \in DOMAIN pcs : OperationSettles(i)

CoordSpec == Init /\ [][CoordNext]_vars

\* A host whose viewers announce themselves: the relay reports them with
\* viewer-joined, they send viewer-ready and candidates, in any order.
JoinNext ==
  \/ Initialize(TRUE, Empty)
  \/ OnConnect
  \/ OnReply(StreamCreatedPayload(GeneratedId))
  \/ \E p \in PeerIds : events < MaxEvents /\ OnViewerJoined(p)
  \/ \E p \in PeerIds, type \in {"viewer-ready", "candidate"} :
       events < MaxEvents /\ OnSignalEvent(p, type)
  \/ \E k \in DOMAIN certWait : CertificateReady(k)
  \/ \E i \in DOMAIN pcs : OperationSettles(i)

JoinSpec == Init /\ [][JoinNext]_vars

\* The peer's answer to the offer of the connection stored for it is due.
AwaitsAnswer(p) ==
  /\ p \in DOMAIN co.peerConnections
  /\ LET i == co.peerConnections[p] IN
       /\ pcs[i].signalingState = "have-local-offer"
       /\ pcs[i].chain = <<>>
       /\ \E k \in DOMAIN sent :
            sent[k].to = p /\ sent[k].type = "offer" /\ sent[k].pc = i

\* The i-th connection is the one stored for its peer.
Stored(i) ==
  /\ pcs[i].peer \in DOMAIN co.peerConnections
  /\ co.peerConnections[pcs[i].peer] = i

\* The relay has not announced the viewer yet.
NotJoined(p) == [event |-> "viewer-joined", peer |-> p] \notin emitted

\* The whole life of a coordinator whose relay and peer keep to the
\* protocol: a viewer joins once and answers each offer once; transports
\* change state, time passes, timers fire, the socket is lost and found
\* again, and the application may disconnect a peer or shut down at any
\* time.
LifeNext ==
  \/ \E host \in BOOLEAN :
       Initialize(host, IF host THEN Empty ELSE GeneratedId)
  \/ OnConnect
  \/ OnReply(StreamCreatedPayload(GeneratedId))
  \/ OnReply(JoinedStreamPayload(co.connectionId))
  \/ InitRejected
  \/ \E p \in PeerIds :
       events < MaxLifeEvents /\ NotJoined(p) /\ OnViewerJoined(p)
  \/ \E p \in PeerIds : events < MaxLifeEvents /\ OnViewerLeft(p)
  \/ events < MaxLifeEvents /\ OnStreamEnded
  \/ \E p \in PeerIds :
       events < MaxLifeEvents /\ AwaitsAnswer(p) /\ OnSignalEvent(p, "answer")
  \/ events < MaxLifeEvents /\ OnDisconnect
  \/ \E k \in DOMAIN certWait : CertificateReady(k)
  \/ \E i \in DOMAIN pcs : OperationSettles(i)
  \/ \E i \in DOMAIN pcs, s \in IceStates :
       events < MaxLifeEvents /\ IceConnectionStateChange(i, s)
  \/ TimePasses
  \/ \E t \in timers : IceGatheringTimerFires(t)
  \/ \E t \in timers : ReconnectTimerFires(t)
  \/ \E t \in timers : RelayReconnectTimerFires(t)
  \/ StatsTimerFires
  \/ ShutdownCall
  \/ \E p \in PeerIds : DisconnectFromPeerCall(p)

LifeSpec == Init /\ [][LifeNext]_vars

\* The same, with the timers of initialize firing when their time has come:
\* a timer that is set and not cleared does fire.
InitLiveSpec == Init /\ [][LifeNext]_vars /\ WF_vars(InitTimerFires)

\* A host that loses the transport to its viewer again and again: the
\* viewer joins once and answers each offer once, the relay stays connected
\* and nobody shuts down.  The ICE gathering timers, whose callback only
\* sets iceGatheringComplete, and the transports of connections the
\* coordinator has dropped, are left to LifeSpec.
RecoveryNext ==
  \/ Initialize(TRUE, Empty)
  \/ OnConnect
  \/ OnReply(StreamCreatedPayload(GeneratedId))
  \/ \E p \in PeerIds :
       events < MaxRecoveryEvents /\ NotJoined(p) /\ OnViewerJoined(p)
  \/ \E p \in PeerIds :
       events < MaxRecoveryEvents /\ AwaitsAnswer(p) /\ OnSignalEvent(p, "answer")
  \/ \E k \in DOMAIN certWait : CertificateReady(k)
  \/ \E i \in DOMAIN pcs : OperationSettles(i)
  \/ \E i \in DOMAIN pcs, s \in IceStates :
       events < MaxRecoveryEvents /\ Stored(i) /\ IceConnectionStateChange(i, s)
  \/ TimePasses
  \/ \E t \in timers : ReconnectTimerFires(t)

RecoverySpec == Init /\ [][RecoveryNext]_vars

(***************************************************************************)
(* Claims about the coordinator.                                           *)
(***************************************************************************)
Range(seq) == {seq[k] : k \in DOMAIN seq}

\* The RTCPeerConnection objects made for peer p that are not closed.
OpenLinks(p) ==
  {i \in DOMAIN pcs : pcs[i].peer = p /\ pcs[i].signalingState # "closed"}

\* Candidate c of peer p is still on its way through a handler: with a call
\* waiting for its certificate, or on the chain of one of p's connections.
CandidateInFlight(p, c) ==
  \/ \E k \in DOMAIN certWait : certWait[k].peer = p /\ certWait[k].cand = c
  \/ \E i \in DOMAIN pcs :
       /\ pcs[i].peer = p
       /\ \E j \in DOMAIN pcs[i].chain :
            \/ pcs[i].chain[j].cand = c
            \/ c \in Range(pcs[i].chain[j].rest)

CandidateStored(p, c) ==
  p \in DOMAIN co.pendingCandidates /\ c \in Range(co.pendingCandidates[p])

CandidateApplied(p, c) ==
  \E i \in DOMAIN pcs : pcs[i].peer = p /\ c \in Range(pcs[i].applied)

\* C9: a candidate received from a peer is never dropped: as long as no
\* connection of the peer has been closed, every candidate received so far is
\* still being handled, or stored for the peer, or applied to a connection
\* of the peer; and a connection has candidates applied only once it has a
\* remote description, and in the order they arrived.
C9_CandidatesNeverDropped ==
  \A p \in PeerIds :
    /\ (\A i \in DOMAIN pcs : pcs[i].peer = p => i \in OpenLinks(p))
         => \A c \in 1..ncand[p] :
              \/ CandidateInFlight(p, c)
              \/ CandidateStored(p, c)
              \/ CandidateApplied(p, c)
    /\ \A i \in DOMAIN pcs :
         /\ pcs[i].applied # <<>> => pcs[i].remoteDescription
         /\ \A j, k \in DOMAIN pcs[i].applied :
              j < k => pcs[i].applied[j] < pcs[i].applied[k]

\* C10: a peer never has two connections: of the RTCPeerConnection objects
\* made for one peer at most one is open at any time, and it is the one
\* stored for the peer.
C10_OnePeerLinkPerPeer ==
  \A p \in PeerIds :
    /\ Cardinality(OpenLinks(p)) <= 1
    /\ \A i \in OpenLinks(p) :
         p \in DOMAIN co.peerConnections /\ co.peerConnections[p] = i

\* The timers of _handleConnectionIssue pending for peer p among ts.
ReconnectTimers(ts, p) == {t \in ts : t.kind = "reconnectPeer" /\ t.peer = p}

\* C11: automatic reconnection to a peer is bounded: once a peer's
\* connections have gone to failed three times in a row, with none of them
\* connected in between, no step sets a new reconnection timer for the
\* peer, and a further failure gives the application connection-failed.
C11_ReconnectionIsBounded ==
  [][\A p \in PeerIds :
       streak[p] >= MaxPeerRetries
         => /\ ReconnectTimers(timers', p) \subseteq timers
            /\ streak'[p] > streak[p]
                 => [event |-> "connection-failed", peer |-> p] \in emitted']_vars

\* C12: whenever the ICE transport of a connection becomes connected or
\* completed, the error counter of the connection's peer is 0 after the
\* step, whatever it was before.
C12_ConnectedResetsErrorCount ==
  [][\A i \in DOMAIN pcs :
       /\ pcs'[i].iceConnectionState \in {"connected", "completed"}
       /\ pcs'[i].iceConnectionState # pcs[i].iceConnectionState
       => /\ pcs[i].peer \in DOMAIN co'.connectionErrors
          /\ co'.connectionErrors[pcs[i].peer] = 0]_vars

\* A connection is connected again after a failure that was counted and
\* reported, and the counter is back at 0.
C12_Witness ==
  \E i \in DOMAIN pcs :
    /\ pcs[i].iceConnectionState = "connected"
    /\ [event |-> "connection-failed", peer |-> pcs[i].peer] \in emitted
    /\ [event |-> "peer-disconnected", peer |-> pcs[i].peer] \in emitted
    /\ pcs[i].peer \in DOMAIN co.connectionErrors
    /\ co.connectionErrors[pcs[i].peer] = 0

\* Calling close a second time, right after the first, changes nothing:
\* neither the coordinator nor what it has sent, emitted or scheduled.
SecondCloseIsNoOp ==
  /\ \A p \in PeerIds :
       LET w1 == DisconnectFromPeer(World, p) IN DisconnectFromPeer(w1, p) = w1
  /\ LET w1 == Shutdown(World) IN Shutdown(w1) = w1

\* C13, as stated: a second disconnectFromPeer or shutdown changes nothing,
\* and neither does a shutdown of a coordinator whose initialize never
\* completed, whether it was never called or has failed.
C13_ClosingIsIdempotent ==
  /\ SecondCloseIsNoOp
  /\ init.at \in {"constructed", "failed"} => Shutdown(World) = World

\* C13, amended: a second disconnectFromPeer or shutdown changes nothing;
\* shutdown changes nothing on a coordinator that was never initialized;
\* on one whose initialize has failed it sends nothing to the relay and
\* emits no event.
C13_ClosingIsIdempotentAmended ==
  /\ SecondCloseIsNoOp
  /\ init.at = "constructed" => Shutdown(World) = World
  /\ init.at = "failed"
       => Shutdown(World).sent = sent /\ Shutdown(World).emitted = emitted

\* A host that had a connection and a session has been shut down, end-stream
\* was sent, and another shutdown would change nothing.
C13_Witness ==
  /\ down
  /\ co.isHost
  /\ pcs # <<>>
  /\ \E k \in DOMAIN sent : sent[k].type = "end-stream"
  /\ Shutdown(World) = World

\* C14: when shutdown returns, every connection the coordinator held has
\* been closed; the coordinator holds no connection, no data channel, no
\* stored candidates, no stats timer and no signaling socket; and a host
\* with a stream has sent end-stream as the last thing before the socket
\* was disconnected.
C14_ShutdownReleasesEverything ==
  [][ShutdownCall =>
       /\ \A p \in DOMAIN co.peerConnections :
            pcs'[co.peerConnections[p]].signalingState = "closed"
       /\ co'.peerConnections = <<>>
       /\ co'.dataChannels = <<>>
       /\ co'.pendingCandidates = <<>>
       /\ ~co'.statsInterval
       /\ Timer("stats", Empty, 1) \notin timers'
       /\ ~co'.signaling
       /\ ~socketUp'
       /\ co.isHost /\ co.connectionId # Empty /\ co.signaling
            => sent' = Append(sent, [to |-> RelayId, type |-> "end-stream",
                                     pc |-> 0])]_vars

\* The coordinator's fields, the ages of the attempts left out.
Fields(c) == [c EXCEPT !.lastConnectionAttempt = DOMAIN @]

\* C15: once shutdown has been called, no step other than a new call by the
\* application (no timer that fires, no handler that continues) changes a
\* field of the coordinator, creates a connection, sends anything through
\* the signaling socket or connects the socket again.
C15_NothingRunsAfterShutdown ==
  [][/\ down
     /\ ~ShutdownCall
     /\ ~\E p \in PeerIds : DisconnectFromPeerCall(p)
     => /\ Fields(co') = Fields(co)
        /\ Len(pcs') = Len(pcs)
        /\ sent' = sent
        /\ socketUp' = socketUp]_vars

\* C19: when the relay answers a viewer's join-stream with joined-stream for
\* the stream asked for, initialize completes and the coordinator's
\* connection id is that stream's id.
C19_ViewerJoinSucceeds ==
  [][OnReply(JoinedStreamPayload(co.connectionId))
       => init'.at = "ready" /\ co'.connectionId = co.connectionId]_vars

\* C20: when the relay answers a host's create-stream with another id than
\* the one asked for, initialize completes and the coordinator's connection
\* id is the id the relay answered with.
C20_HostTakesRenamedId ==
  [][\A id \in {GeneratedId, RenamedId} :
       id # co.connectionId /\ OnReply(StreamCreatedPayload(id))
         => init'.at = "ready" /\ co'.connectionId = id]_vars

\* C21: initialize does not wait for ever: whenever it is waiting for the
\* socket to connect or for the relay's reply, it later has returned or has
\* thrown, whatever arrives or fails to arrive meanwhile.
C21_InitializeSettles ==
  (init.at \in InitWaits) ~> (init.at \in {"ready", "failed"})

\* A host's initialize has thrown while it waited for stream-created: the
\* socket had connected and no reply came before the 5 s timer.
C21_Witness ==
  /\ init.at = "failed"
  /\ co.isHost
  /\ co.connectionId = GeneratedId
  /\ ~down

\* The error reply to join-stream(id) from socket s, if that is all the
\* relay emits.
ErrorReplyTo(s, text) == EmitToSocket(s, "error", Empty, Empty, text, 0)

\* C22: the relay's error replies to join-stream name the cause: no id
\* gets 'Invalid stream ID', an id without a session 'Stream not found', a
\* session whose host is not among the live sockets 'Stream host is
\* disconnected' (for whatever part of the connected sockets counts as
\* live); the three texts differ, and the Error the viewer's initialize
\* throws has the relay's text as its message.
C22_JoinErrorsNameTheCause ==
  /\ \A s \in connected, id \in RequestIds :
       /\ id = Empty => JoinOut(s, id) = ErrorReplyTo(s, "Invalid stream ID")
       /\ id # Empty /\ id \notin DOMAIN connections
            => JoinOut(s, id) = ErrorReplyTo(s, "Stream not found")
  /\ \A live \in SUBSET connected, id \in DOMAIN connections :
       connections[id].hostSocketId \notin live
         => ErrorText(JoinOutcomeIn(connections, live, id))
              = "Stream host is disconnected"
  /\ \A o1, o2 \in {"invalid", "notfound", "unreachable"} :
       o1 # o2 => ErrorText(o1) # ErrorText(o2)
  /\ \A o \in {"invalid", "notfound", "unreachable"} :
       JoinRejection([message |-> ErrorText(o)]) = ErrorText(o)

\* A client other than the host of a session is connected: it can be told
\* each of the three causes.
C22_Witness ==
  \E id \in DOMAIN connections : \E s \in connected :
    /\ s # connections[id].hostSocketId
    /\ id # Empty
    /\ JoinOut(s, Empty) = ErrorReplyTo(s, "Invalid stream ID")
    /\ \E id2 \in RequestIds \ {Empty} : id2 \notin DOMAIN connections
    /\ JoinOutcomeIn(connections, connected \ {connections[id].hostSocketId}, id)
         = "unreachable"

\* No handler is waiting: no certificate is being made and no operation of
\* a connection is pending.
Quiet == certWait = <<>> /\ \A i \in DOMAIN pcs : pcs[i].chain = <<>>

\* An offer to peer p has been sent through the signaling socket.
OfferSentTo(p) == \E k \in DOMAIN sent : sent[k].to = p /\ sent[k].type = "offer"

\* C23: a host that has handled viewer-joined for a viewer, and whose
\* handlers have all run to their end, has sent the viewer an offer,
\* whatever viewer-ready and candidate signals of the viewer it handled
\* before or meanwhile.
C23_JoinedViewerGetsOffer ==
  \A p \in PeerIds :
    /\ [event |-> "viewer-joined", peer |-> p] \in emitted
    /\ Quiet
    => OfferSentTo(p)

\* C24: a host that has handled viewer-ready from a viewer the relay never
\* announced, and whose handlers have all run to their end, holds a
\* connection for the viewer and has sent it an offer.
C24_ViewerReadyStartsConnection ==
  \A p \in PeerIds :
    /\ <<p, "viewer-ready">> \in heard
    /\ [event |-> "viewer-joined", peer |-> p] \notin emitted
    /\ co.isHost /\ init.at = "ready"
    /\ Quiet
    => p \in DOMAIN co.peerConnections /\ OfferSentTo(p)


(***************************************************************************)
(* The viewer page (part_003): connectToStream after the join reply        *)
(***************************************************************************)
\* maxReconnectAttempts of the page.
PageMaxReconnectAttempts == 5

\* new RTCPeerConnection(webrtcConfig) of the page.
PageNewPc ==
  [signalingState |-> "stable", localDescription |-> FALSE,
   remoteDescription |-> FALSE, connectionState |-> "new",
   applied |-> <<>>, chain |-> <<>>]

\* The page emits a signal of the given type to joinResult.hostSocketId.
PageEmit(pg, type) == [pg EXCEPT !.sent = Append(@, type)]

PageSent(type) == \E k \in DOMAIN page.sent : page.sent[k] = type

\* connectToStream from the resolved join on: the peer connection is
\* created, the handlers are registered, viewer-ready is sent and the
\* 3000 ms timer is set.  The relay's reply always names the host socket.
PageJoined ==
  /\ page.at = "joining"
  /\ page' = PageEmit([page EXCEPT !.at = "negotiating",
                                   !.peerConnection = TRUE,
                                   !.pc = PageNewPc,
                                   !.listening = @ \cup {page.socket},
                                   !.graceTimer = TRUE], "viewer-ready")
  /\ UNCHANGED <<relayVars, coordVars>>

\* socket.on('signal') of the page.  With peerConnection null the call
\* throws inside the try block and the error is logged.
PageOnSignal(type) ==
  /\ page.at = "negotiating"
  /\ page' =
       [IF ~page.peerConnection THEN page
        ELSE [page EXCEPT !.pc.chain =
                Append(@, CASE type = "offer" ->
                                 Op("setRemoteDescription", "offer", 0,
                                    "offer", <<>>)
                            [] type = "answer" ->
                                 Op("setRemoteDescription", "answer", 0,
                                    "answer", <<>>)
                            [] OTHER ->
                                 Op("addIceCandidate", "none", 0,
                                    "candidate", <<>>))]
        EXCEPT !.events = @ + 1]
  /\ UNCHANGED <<relayVars, coordVars>>

\* The page's code after the operation o it awaited: the offer branch of
\* the signal handler, and the promise chain of the 3000 ms callback.
PageContinue(pg, o, ok) ==
  CASE o.task = "offer" ->
         IF ~ok THEN pg
         ELSE IF o.op = "setRemoteDescription"
         THEN [pg EXCEPT !.pc.chain =
                 Append(@, Op("createAnswer", "none", 0, "offer", <<>>))]
         ELSE IF o.op = "createAnswer"
         THEN [pg EXCEPT !.pc.chain =
                 Append(@, Op("setLocalDescription", "answer", 0, "offer",
                              <<>>))]
         ELSE PageEmit(pg, "answer")
    [] o.task = "fallback" ->
         IF ~ok THEN pg
         ELSE IF o.op = "createOffer"
         THEN [pg EXCEPT !.pc.chain =
                 Append(@, Op("setLocalDescription", "offer", 0, "fallback",
                              <<>>))]
         ELSE PageEmit(pg, "offer")
    [] OTHER -> pg

\* The oldest operation of the page's connection settles.
PageOperationSettles ==
  /\ page.pc.chain # <<>>
  /\ LET o == Head(page.pc.chain) IN
     \E ok \in Outcomes(page.pc, o) :
       LET pc == IF ok THEN PcAfter(page.pc, o) ELSE page.pc IN
       page' = PageContinue([page EXCEPT !.pc = [pc EXCEPT !.chain = Tail(@)]],
                            o, ok)
  /\ UNCHANGED <<relayVars, coordVars>>

\* The transport of a fully negotiated connection comes up.
PageConnected ==
  /\ page.peerConnection
  /\ page.pc.signalingState = "stable"
  /\ page.pc.localDescription /\ page.pc.remoteDescription
  /\ page.pc.connectionState # "connected"
  /\ page' = [page EXCEPT !.pc.connectionState = "connected",
                          !.events = @ + 1]
  /\ UNCHANGED <<relayVars, coordVars>>

\* peerConnection.ontrack with a stream: a remote description carries it.
PageOnTrack ==
  /\ page.peerConnection
  /\ page.pc.remoteDescription
  /\ page.pc.signalingState # "closed"
  /\ page' = [page EXCEPT !.isConnected = TRUE, !.events = @ + 1]
  /\ UNCHANGED <<relayVars, coordVars>>

\* disconnect() of the page.
PageClosePc(pg) ==
  IF ~pg.peerConnection THEN pg
  ELSE [pg EXCEPT !.pc.signalingState = "closed",
                  !.pc.connectionState = "closed",
                  !.pc.chain = <<>>,
                  !.peerConnection = FALSE]

PageDisconnect(pg) ==
  IF ~pg.isConnected THEN pg
  ELSE [PageClosePc(pg) EXCEPT !.isConnected = FALSE,
                               !.reconnectAttempts = 0,
                               !.input = FALSE]

\* socket.on('stream-ended') of the page.
PageStreamEnded ==
  /\ page.at = "negotiating"
  /\ page' = [PageDisconnect(page) EXCEPT !.events = @ + 1]
  /\ UNCHANGED <<relayVars, coordVars>>

\* The test of the 3000 ms callback.
PageGraceTest(pg) == pg.peerConnection /\ pg.pc.connectionState # "connected"

\* The 3000 ms callback set by connectToStream.
PageGraceTimerFires ==
  /\ page.graceTimer
  /\ page' =
       [IF PageGraceTest(page)
        THEN [page EXCEPT !.pc.chain =
                Append(@, Op("createOffer", "none", 0, "fallback", <<>>))]
        ELSE page
        EXCEPT !.graceTimer = FALSE,
               !.answeredInGrace = PageSent("answer")]
  /\ UNCHANGED <<relayVars, coordVars>>

PageNext ==
  \/ PageJoined
  \/ \E type \in {"offer", "answer", "candidate"} :
       page.events < MaxPageEvents /\ PageOnSignal(type)
  \/ PageOperationSettles
  \/ page.events < MaxPageEvents /\ PageConnected
  \/ page.events < MaxPageEvents /\ PageOnTrack
  \/ page.events < MaxPageEvents /\ PageStreamEnded
  \/ PageGraceTimerFires

PageSpec == Init /\ [][PageNext]_vars

(***************************************************************************)
(* The viewer page and the relay: connectToStream from its first line,     *)
(* attemptReconnect and the retry buttons                                  *)
(***************************************************************************)
\* The socket of the host whose session the page joins, and the sockets
\* the relay has accepted for the page.
StreamHost == <<"sock", 1>>

\* connectionIdInput.value: the id the host created its session under.
StreamId == <<"name", 1>>

LatestSocket == <<"sock", accepted>>

\* The relay has accepted the socket of the running connectToStream call
\* and the call has not seen its 'connect' event yet.
Unclaimed == accepted > 1 /\ LatestSocket \notin page.sockets

\* connectToStream up to io(serverUrl, {..., forceNew: true}): with an
\* empty input field the call alerts and returns; else a new local socket
\* is opened.  The sockets of earlier calls are not touched.
ConnectToStream(pg) ==
  IF ~pg.input THEN pg
  ELSE [pg EXCEPT !.at = "connecting", !.socket = Empty, !.button = FALSE]

\* The user starts connectToStream from the form.
PageConnectClicked ==
  /\ page.at = "idle"
  /\ page' = ConnectToStream(page)
  /\ UNCHANGED <<relayVars, coordVars>>

\* The 'connect' event of the call's socket: join-stream is emitted.
PageSocketConnected ==
  /\ page.at = "connecting"
  /\ Unclaimed
  /\ page' = [page EXCEPT !.at = "joining", !.socket = LatestSocket,
                          !.sockets = @ \cup {LatestSocket}]
  /\ UNCHANGED <<relayVars, coordVars>>

\* The catch block of connectToStream when the join wait rejects (error
\* reply or the 5000 ms timer): the Try Again button is shown.
PageJoinFailed ==
  /\ page.at = "joining"
  /\ page' = [page EXCEPT !.at = "failed", !.button = TRUE]
  /\ UNCHANGED <<relayVars, coordVars>>

\* attemptReconnect().
AttemptReconnect(pg) ==
  IF pg.reconnectAttempts >= PageMaxReconnectAttempts
  THEN [pg EXCEPT !.button = TRUE]
  ELSE [PageClosePc(pg) EXCEPT !.reconnectAttempts = @ + 1,
                               !.retryTimers = @ + 1]

\* oniceconnectionstatechange with the state disconnected or failed.
PageIceLost ==
  /\ page.peerConnection
  /\ page' = AttemptReconnect(page)
  /\ UNCHANGED <<relayVars, coordVars>>

\* The 1500 ms callback of attemptReconnect.
PageRetryTimerFires ==
  /\ page.retryTimers > 0
  /\ page' = ConnectToStream([page EXCEPT !.retryTimers = @ - 1])
  /\ UNCHANGED <<relayVars, coordVars>>

\* The click handler of the Try Again and Reconnect buttons.
PageRetryClicked ==
  /\ page.button
  /\ page' = ConnectToStream([page EXCEPT !.reconnectAttempts = 0])
  /\ UNCHANGED <<relayVars, coordVars>>

\* socket.on('stream-ended') of the socket s of some connectToStream call.
\* The relay emitted stream-ended to the room of a session that is gone
\* and that s is still in.
PageStreamEndedOn(s) ==
  /\ s \in page.listening \ page.endedOn
  /\ s \in connected
  /\ StreamId \in rooms[s] \ DOMAIN connections
  /\ page' = [PageDisconnect(page) EXCEPT !.endedOn = @ \cup {s}]
  /\ UNCHANGED <<relayVars, coordVars>>

JoinedSockets ==
  IF StreamId \in DOMAIN connections
  THEN connections[StreamId].viewers ELSE {}

RejoinNext ==
  \/ accepted = 0 /\ Connect(StreamHost)
  \/ clock = 0 /\ CreateStream(StreamHost, StreamId)
  \/ PageConnectClicked
  \/ \E s \in SocketIds :
       page.at = "connecting" /\ accepted > 0 /\ ~Unclaimed /\ Connect(s)
  \/ PageSocketConnected
  \/ \E s \in page.sockets \ JoinedSockets :
       JoinOutcome(StreamId) = "ok" /\ JoinStream(s, StreamId)
  \/ page.socket \in JoinedSockets /\ PageJoined
  \/ PageJoinFailed
  \/ PageIceLost
  \/ PageRetryTimerFires
  \/ PageRetryClicked
  \/ EndStream(StreamHost, StreamId)
  \/ Disconnect(StreamHost)
  \/ \E s \in SocketIds : PageStreamEndedOn(s)

RejoinInit == RelayInit /\ Constructor /\ PageIdle

RejoinSpec == RejoinInit /\ [][RejoinNext]_vars

\* C25: a viewer page that has answered an offer of the host before its
\* 3000 ms timer fired never sends an offer of its own.
C25_NoOwnOfferAfterAnswering == page.answeredInGrace => ~PageSent("offer")


\* The answers sent to peer p so far.
AnswersTo(p) ==
  Cardinality({k \in DOMAIN sent : sent[k].to = p /\ sent[k].type = "answer"})

\* C26: a coordinator never sends a peer more answers than it has applied
\* offers of that peer, and once every operation has settled it has sent
\* the peer one answer for each offer of the peer it applied.
C26_OneAnswerPerAppliedOffer ==
  \A p \in PeerIds :
    /\ AnswersTo(p) <= offersApplied[p]
    /\ Quiet /\ SignalingLive => AnswersTo(p) = offersApplied[p]


\* The link stored for peer p has its transport up.
Established(p) ==
  \E i \in DOMAIN pcs :
    /\ Stored(i) /\ pcs[i].peer = p
    /\ pcs[i].iceConnectionState \in {"connected", "completed"}

\* C27: a step in which a host emits connection-failed for a peer whose
\* link was established finds the peer's reconnection budget used up: the
\* peer's error count had reached MaxPeerRetries before that failure.
C27_FailedOnlyAfterBudget ==
  [][\A p \in PeerIds :
       LET e == [event |-> "connection-failed", peer |-> p] IN
       e \notin emitted /\ e \in emitted' /\ co.isHost /\ Established(p)
         => GetOr(co.connectionErrors, p, 0) >= MaxPeerRetries]_vars


\* The connect attempts for peer p that are scheduled by a reconnection
\* timer, waiting in _createPeerConnection, or awaiting an operation.
AttemptsUnderWay(p) ==
  Cardinality(ReconnectTimers(timers, p))
  + Cardinality({k \in DOMAIN certWait :
                   certWait[k].task = "connect" /\ certWait[k].peer = p})
  + Cardinality({i \in DOMAIN pcs :
                   /\ pcs[i].peer = p
                   /\ \E k \in DOMAIN pcs[i].chain :
                        pcs[i].chain[k].task = "connect"})

\* C28: at no time are two reconnection attempts for the same peer
\* scheduled or running.
C28_OneReconnectAtATime == \A p \in PeerIds : AttemptsUnderWay(p) <= 1


(***************************************************************************)
(* A host whose viewer leaves: the relay reports viewer-left once, for a   *)
(* viewer it has reported as joined.                                       *)
(***************************************************************************)
Joined(p) == [event |-> "viewer-joined", peer |-> p] \in emitted
Left(p) == [event |-> "viewer-left", peer |-> p] \in emitted

LeaveNext ==
  \/ Initialize(TRUE, Empty)
  \/ OnConnect
  \/ OnReply(StreamCreatedPayload(GeneratedId))
  \/ \E p \in PeerIds :
       events < MaxLeaveEvents /\ NotJoined(p) /\ OnViewerJoined(p)
  \/ \E p \in PeerIds :
       events < MaxLeaveEvents /\ Joined(p) /\ ~Left(p) /\ OnViewerLeft(p)
  \/ \E p \in PeerIds :
       events < MaxLeaveEvents /\ AwaitsAnswer(p) /\ OnSignalEvent(p, "answer")
  \/ \E k \in DOMAIN certWait : CertificateReady(k)
  \/ \E i \in DOMAIN pcs : OperationSettles(i)
  \/ \E i \in DOMAIN pcs, s \in IceStates :
       events < MaxLeaveEvents /\ Stored(i) /\ IceConnectionStateChange(i, s)
  \/ TimePasses
  \/ \E t \in timers : ReconnectTimerFires(t)

LeaveSpec == Init /\ [][LeaveNext]_vars

\* C29: once a host has handled viewer-left for a viewer and nothing is
\* pending any more (no certificate, no operation, no reconnection timer of
\* the viewer), the host holds no connection for the viewer.
C29_LeftViewerHasNoLink ==
  \A p \in PeerIds :
    Left(p) /\ Quiet /\ ReconnectTimers(timers, p) = {}
      => p \notin DOMAIN co.peerConnections


\* C30: no step changes the host of a session that is there before and
\* after it, and a create-stream of a connection leaves every session of
\* another host in the registry as it was, host and viewers.
C30_HostOfSessionIsFixed ==
  [][/\ \A id \in DOMAIN connections \cap DOMAIN connections' :
          connections'[id].hostSocketId = connections[id].hostSocketId
     /\ \A s \in SocketIds : \A req \in RequestIds :
          CreateStream(s, req)
            => \A id \in DOMAIN connections :
                 connections[id].hostSocketId # s
                   => /\ id \in DOMAIN connections'
                      /\ connections'[id] = connections[id]]_vars

\* C30 witness: a session with viewers, and a younger session under a uuid
\* that another connection created.
C30_Witness ==
  \E a \in DOMAIN connections \cap Names, b \in DOMAIN connections \cap Uuids :
    /\ connections[a].hostSocketId # connections[b].hostSocketId
    /\ connections[a].viewers # {}
    /\ connections[a].createdAt < connections[b].createdAt


\* C31: in every relay state the host of every session and every member of
\* every viewer set is a connected socket; socket ids are never given out
\* twice, so a socket whose disconnect has been handled is in no session.
C31_SessionsNameLiveSockets ==
  \A id \in DOMAIN connections :
    /\ connections[id].hostSocketId \in connected
    /\ connections[id].viewers \subseteq connected

\* C31 witness: a socket has disconnected and a session with a viewer is
\* still there.
C31_Witness ==
  /\ Cardinality(connected) < accepted
  /\ \E id \in DOMAIN connections : connections[id].viewers # {}


\* The peers with an entry in one of the per-peer maps beside the
\* peer-connection map.
PeersWithResources ==
  DOMAIN co.dataChannels \cup DOMAIN co.pendingCandidates
    \cup DOMAIN co.iceGatheringComplete \cup DOMAIN co.iceGatheringTimeouts
    \cup DOMAIN co.connectionErrors \cup DOMAIN co.lastConnectionAttempt

\* C32: between handlers of a coordinator that has not been shut down,
\* every peer with an entry in a per-peer map has an entry in the
\* peer-connection map.
C32_ResourcesOnlyForLinkedPeers ==
  ~down => PeersWithResources \subseteq DOMAIN co.peerConnections


(***************************************************************************)
(* A host coordinator and the relay it talks to.  The host is the relay's  *)
(* only client, so its socket is the one accepted last, and the relay      *)
(* handles what the host sent in the order it was sent.                    *)
(***************************************************************************)
HostSocket == <<"sock", accepted>>

\* The string GeneratedId as the relay sees it in create-stream.
HostRequest == <<"name", 1>>

CreatesSent ==
  Cardinality({k \in DOMAIN sent : sent[k].type = "create-stream"})

RelinkNext ==
  \/ Initialize(TRUE, Empty)
  \/ \E s \in SocketIds :
       co.signaling /\ ~socketUp /\ connected = {} /\ Connect(s)
  \/ connected # {} /\ OnConnect
  \/ socketUp /\ clock < CreatesSent /\ CreateStream(HostSocket, HostRequest)
  \/ HostedBy(HostSocket) # {} /\ OnReply(StreamCreatedPayload(GeneratedId))
  \/ InitRejected
  \/ events < MaxRelinkEvents /\ OnDisconnect
  \/ ~socketUp /\ connected # {} /\ Disconnect(HostSocket)
  \/ \E t \in timers : RelayReconnectTimerFires(t)

RelinkSpec == Init /\ [][RelinkNext]_vars

\* C33: a host that is initialized and whose relay connection is up again
\* after a loss, with everything it sent handled by the relay, advertises
\* an id that names a session hosted by its present socket.
C33_AdvertisedIdNamesOwnSession ==
  /\ co.isHost /\ init.at = "ready" /\ socketUp
  /\ accepted > 1 /\ connected = {HostSocket}
  /\ clock = CreatesSent
  => /\ HostRequest \in DOMAIN connections
     /\ connections[HostRequest].hostSocketId = HostSocket


(***************************************************************************)
(* A coordinator whose relay connection is lost again and again            *)
(***************************************************************************)
OutageNext ==
  \/ Initialize(TRUE, Empty)
  \/ OnConnect
  \/ OnReply(StreamCreatedPayload(GeneratedId))
  \/ events < MaxOutages /\ OnDisconnect
  \/ \E t \in timers : RelayReconnectTimerFires(t)

OutageSpec == Init /\ [][OutageNext]_vars

RelayReconnectTimers(ts) == {t \in ts : t.kind = "relayReconnect"}

\* C34: the count of relay reconnect attempts never exceeds
\* MaxReconnectAttempts and never goes down while the coordinator lives;
\* every step that schedules a relay reconnect finds the count below the
\* maximum and raises it by one; and a relay disconnect that finds the
\* count at the maximum emits the error event and schedules nothing.
C34_RelayReconnectionIsBounded ==
  [][/\ co.reconnectAttempts <= MaxReconnectAttempts
     /\ co'.reconnectAttempts >= co.reconnectAttempts
     /\ ~(RelayReconnectTimers(timers') \subseteq timers)
          => /\ co.reconnectAttempts < MaxReconnectAttempts
             /\ co'.reconnectAttempts = co.reconnectAttempts + 1
     /\ OnDisconnect /\ co.reconnectAttempts >= MaxReconnectAttempts
          => /\ [event |-> "error", peer |-> Empty] \in emitted'
             /\ RelayReconnectTimers(timers') \subseteq timers]_vars

\* C34 witness: the relay connection was lost with the budget used up, and
\* the application was given the error.
C34_Witness ==
  /\ co.reconnectAttempts = MaxReconnectAttempts
  /\ co.connectionState = "signaling_disconnected"
  /\ [event |-> "error", peer |-> Empty] \in emitted


\* C35: the ICE gathering watchdog leaves the done flags alone when the
\* peer it was set for has no connection stored.
C35_WatchdogSparesCleanedPeers ==
  [][\A t \in timers :
       IceGatheringTimerFires(t) /\ t.peer \notin DOMAIN co.peerConnections
         => co'.iceGatheringComplete = co.iceGatheringComplete]_vars


\* C36: whatever object a connected socket emits as a signal, every copy
\* the relay forwards names that socket as from and carries the payload
\* unchanged.
C36_FromIsTheSender ==
  \A s \in connected : \A m \in SignalMessages :
    \A out \in BagToSet(ForwardSignal(s, m)) :
      out.who = s /\ out.sig = m.signal /\ out.msg = "signal"

\* C36 witness: a socket's signal that claims to come from its target is
\* delivered to that target.
C36_Witness ==
  \E s \in connected : \E x \in connected \ {s} :
    \E out \in BagToSet(ForwardSignal(s, [to |-> x, signal |-> 1, from |-> x])) :
      out.to = x


\* C37: after initialize has failed the coordinator has no signaling
\* socket, no stats interval and the connection state disconnected, and
\* once the relay has handled the disconnect of the coordinator's socket
\* the registry holds no session of it.
C37_FailedInitializeLeavesNothing ==
  init.at = "failed"
    => /\ ~co.signaling
       /\ ~co.statsInterval /\ Timer("stats", Empty, 1) \notin timers
       /\ co.connectionState = "disconnected"
       /\ connected = {} => \A s \in SocketIds : HostedBy(s) = {}


\* C38: a viewer page never has two of its sockets in the viewer set of a
\* session, and the page's stream-ended handler runs at most once.
C38_PageHasOneJoinedSocket ==
  /\ Cardinality(JoinedSockets \cap page.sockets) <= 1
  /\ Cardinality(page.endedOn) <= 1

====
